---- MODULE Spec2Model ----
(***************************************************************************)
(* The control-channel hub, machine registry, signaling broker and         *)
(* presence fan-out of ateliercode-server (src/src/server.ts, which holds  *)
(* both server.ts and signaling.ts, and src/src/machines.ts).              *)
(*                                                                         *)
(* JavaScript runs a handler without interruption until it awaits a       *)
(* storage call, so every handler is cut at its awaits: one action starts  *)
(* the handler and runs it up to its first await, and one action per await *)
(* completes the storage call and runs the continuation up to the next     *)
(* await.  Suspended handlers are the records of the variable tasks.       *)
(* A storage call takes effect at the moment its continuation runs; its    *)
(* arguments are the ones evaluated when the call was issued.              *)
(*                                                                         *)
(* Time is kept as ages: lastHeartbeat and last_seen hold the time elapsed *)
(* since the stamp (in ms), advanced by Tick in steps of heartbeatInterval *)
(* and saturating one step above heartbeatTimeout.                         *)
(***************************************************************************)
EXTENDS Integers, Sequences, FiniteSets, TLC

\* ---------------------------------------------------------------- bounds
MaxChannels == 3
MaxMachines == 2
MaxConns == 2
MaxWeb == 2
MaxTasks == 2
LogCap == 2

\* ------------------------------------------------------ program constants
heartbeatInterval == 30000
heartbeatTimeout == 90000

\* ------------------------------------------------------------ value sets
None == "none"

ChannelNames == <<"c1", "c2", "c3", "c4", "c5">>
Channels == {ChannelNames[i] : i \in 1..MaxChannels}

Users == {"alice", "bob"}
Names == {"laptop", "desk"}

\* the uuids the store gives to new machine rows, in the order it mints them
MachineUuids == <<"m1", "m2", "m3", "m4">>
MachineIds == {MachineUuids[i] : i \in 1..MaxMachines}

\* the uuids uuidv4() returns, in the order it is called
ConnUuids == <<"k1", "k2", "k3", "k4">>
ConnIds == {ConnUuids[i] : i \in 1..MaxConns}

\* `web-client-${n}`
WebClientNames == <<"web-client-1", "web-client-2", "web-client-3", "web-client-4">>
WebClientId(n) == WebClientNames[n]
WebIds == {WebClientId(n) : n \in 1..MaxWeb}

MaxAge == heartbeatTimeout + heartbeatInterval
Older(age) == IF age + heartbeatInterval > MaxAge THEN MaxAge ELSE age + heartbeatInterval

\* ---------------------------------------------------------------- state
VARIABLES
  ws,                  \* readyState of each channel's socket
  clients,             \* keys of the clients map (server.ts:37)
  client,              \* the ConnectedClient object of each channel
  users,               \* rows of the users table (their ids)
  machines,            \* rows of the machines table, by id
  machineSeq,          \* how many machine uuids the store has minted
  machineClients,      \* signaling: machineId -> channel
  webClients,          \* signaling: web client id -> channel
  webClientCounter,
  pendingConnections,  \* signaling: connectionId -> PendingConnection
  connSeq,             \* how many connection uuids were minted
  timers,              \* armed 30 s timers, with what their closures captured
  log,                 \* per connection id: how often each kind of frame was sent;
                       \* per machine id: who was told that it is offline
  tasks,               \* suspended async handlers
  out,                 \* the frames the last step put on the wire (a bag)
  ev                   \* what the last step was

vars == <<ws, clients, client, users, machines, machineSeq, machineClients,
          webClients, webClientCounter, pendingConnections, connSeq, timers,
          log, tasks, out, ev>>

dbVars == <<users, machines, machineSeq>>
sigVars == <<machineClients, webClients, webClientCounter, pendingConnections,
             connSeq, timers, log>>
chanVars == <<ws, clients, client>>

\* ------------------------------------------------------------- records
NewClient == [authenticated |-> FALSE, userId |-> None, machineId |-> None,
              lastHeartbeat |-> 0]

NoRow == [exists |-> FALSE, user_id |-> None, name |-> None,
          is_online |-> FALSE, last_seen |-> 0]

NoPending == [exists |-> FALSE, fromMachineId |-> None, fromClientId |-> None,
              toMachineId |-> None, fromClient |-> None]

Frame(to, type, id, code, conn, mid, name) ==
  [to |-> to, type |-> type, id |-> id, code |-> code, connectionId |-> conn,
   machineId |-> mid, name |-> name, open |-> TRUE]

\* what has happened for a connection id: frames handed to send() by kind (counted
\* up to LogCap), whether one of its connection_rejected or CONNECTION_TIMEOUT
\* frames met a socket that was not OPEN, and whether its timer has fired
NoLog == [requested |-> 0, accepted |-> 0, offered |-> 0, answered |-> 0,
          rejected |-> 0, timedOut |-> 0, dropped |-> FALSE, fired |-> FALSE]

\* what has happened for a machine id: the channels that were written a
\* machine_offline for it since its is_online last changed
NoTold == [told |-> {}]

NoLogs == [k \in ConnIds \cup MachineIds |-> IF k \in ConnIds THEN NoLog ELSE NoTold]

ErrorFrame(to, code) == Frame(to, "error", None, code, None, None, None)

\* send(ws, message): the frame is written only when the socket is OPEN.  The bag
\* holds every frame handed to send(), with open telling whether it was written
Stamp(f) == [f EXCEPT !.open = (ws[f.to] = "OPEN")]
\* (variant: every frame goes out twice)
sendTwice(fs) ==
  [f \in {Stamp(fs[i]) : i \in DOMAIN fs} |->
     2 * Cardinality({i \in DOMAIN fs : Stamp(fs[i]) = f})]
send(fs) ==
  [f \in {Stamp(fs[i]) : i \in DOMAIN fs} |->
     Cardinality({i \in DOMAIN fs : Stamp(fs[i]) = f})]

FramesOut == DOMAIN out

\* the log after a step that handed the presence frames fs to send(): the
\* channels a machine_offline was written to are added to its machine's entry
Told(fs) ==
  [k \in DOMAIN log |->
     IF k \in MachineIds
     THEN [told |-> log[k].told \cup
                      {fs[i].to : i \in {j \in DOMAIN fs :
                                           /\ fs[j].type = "machine_offline"
                                           /\ fs[j].machineId = k
                                           /\ ws[fs[j].to] = "OPEN"}}]
     ELSE log[k]]

\* the log after a step that left the machines table as rows: the entry of a
\* machine whose is_online changed starts again
Renewed(rows) ==
  [k \in DOMAIN log |->
     IF k \in MachineIds /\ rows[k].is_online # machines[k].is_online
     THEN NoTold ELSE log[k]]
NoFrames == send(<<>>)

\* a suspended handler: what it is, where it waits, and the values its code holds
\* across the await (resp and errs count the frames it has sent to its requester)
Task(ch, kind, pc, id) ==
  [ch |-> ch, kind |-> kind, pc |-> pc, id |-> id, user |-> None, mid |-> None,
   name |-> None, target |-> None, clientId |-> None, rest |-> {},
   owned |-> FALSE, resp |-> 0, errs |-> 0]

RECURSIVE SumBag(_, _)
SumBag(bag, S) ==
  IF S = {} THEN 0
  ELSE LET f == CHOOSE x \in S : TRUE IN bag[f] + SumBag(bag, S \ {f})

\* frames of a bag that answer channel c's request id: responses and errors
Replies(bag, c, id) ==
  SumBag(bag, {f \in DOMAIN bag : f.to = c /\ f.type # "error" /\ f.id = id})
Errors(bag, c) ==
  SumBag(bag, {f \in DOMAIN bag : f.to = c /\ f.type = "error"})

\* the record of a step: the operation, the channel, the segment of the handler
\* that ran (pc), whether the handler finished, and the request's reply counts
Event(op, ch, id) ==
  [op |-> op, ch |-> ch, id |-> id, pc |-> "recv", done |-> TRUE, code |-> None,
   conn |-> None, mid |-> None, owned |-> FALSE, resp |-> 0, errs |-> 0]

\* a handler segment of request (op, c, id) sent the frames fs
Ran(op, c, id, pc, done, code, fs, resp0, errs0) ==
  [Event(op, c, id) EXCEPT !.pc = pc, !.done = done, !.code = code,
     !.resp = resp0 + Replies(send(fs), c, id),
     !.errs = errs0 + Errors(send(fs), c)]

MsgIds == {"x1"}

Capped(n) == IF n > LogCap THEN LogCap ELSE n

\* the frames fs of one handler step on connection k, added to its log
Logged(k, fs) ==
  LET n(type, code) == Cardinality({i \in DOMAIN fs : fs[i].type = type
                                                       /\ fs[i].code = code})
  IN [log EXCEPT
        ![k].requested = Capped(@ + n("connection_request", None)),
        ![k].accepted = Capped(@ + n("connection_accepted", None)),
        ![k].offered = Capped(@ + n("rtc_offer", None)),
        ![k].answered = Capped(@ + n("rtc_answer", None)),
        ![k].rejected = Capped(@ + n("connection_rejected", None)),
        ![k].timedOut = Capped(@ + n("error", "CONNECTION_TIMEOUT")),
        ![k].dropped = @ \/ \E i \in DOMAIN fs :
                              /\ ~Stamp(fs[i]).open
                              /\ \/ fs[i].type = "connection_rejected"
                                 \/ fs[i].code = "CONNECTION_TIMEOUT"]

CanReceive(c) == ws[c] \in {"OPEN", "CLOSING"}
CanSuspend == Cardinality(tasks) < MaxTasks

Init ==
  /\ ws = [c \in Channels |-> "NONE"]
  /\ clients = {}
  /\ client = [c \in Channels |-> NewClient]
  /\ users = {"alice"}
  /\ machines = [m \in MachineIds |-> NoRow]
  /\ machineSeq = 0
  /\ machineClients = [m \in MachineIds |-> None]
  /\ webClients = [w \in WebIds |-> None]
  /\ webClientCounter = 0
  /\ pendingConnections = [k \in ConnIds |-> NoPending]
  /\ connSeq = 0
  /\ timers = {}
  /\ log = NoLogs
  /\ tasks = {}
  /\ out = NoFrames
  /\ ev = Event("init", None, None)

\* wss.on('connection')
Connection(c) ==
  /\ ws[c] = "NONE"
  /\ ws' = [ws EXCEPT ![c] = "OPEN"]
  /\ clients' = clients \cup {c}
  /\ client' = [client EXCEPT ![c] = NewClient]
  /\ out' = NoFrames
  /\ ev' = Event("connection", c, None)
  /\ UNCHANGED <<dbVars, sigVars, tasks>>

Response(to, type, id, ok) ==
  Frame(to, type, id, IF ok THEN "success" ELSE "failure", None, None, None)

\* ws.on('message'): JSON.parse throws, or the handler throws on a missing payload
\* (variant: the catch block also closes the socket)
MalformedCloses(c) ==
  /\ CanReceive(c)
  /\ ws' = [ws EXCEPT ![c] = "CLOSING"]
  /\ out' = send(<<ErrorFrame(c, "INVALID_MESSAGE")>>)
  /\ ev' = Ran("malformed", c, None, "recv", TRUE, "INVALID_MESSAGE",
               <<ErrorFrame(c, "INVALID_MESSAGE")>>, 0, 0)
  /\ UNCHANGED <<clients, client, dbVars, sigVars, tasks>>
Malformed(c) ==
  /\ CanReceive(c)
  /\ out' = send(<<ErrorFrame(c, "INVALID_MESSAGE")>>)
  /\ ev' = Ran("malformed", c, None, "recv", TRUE, "INVALID_MESSAGE",
               <<ErrorFrame(c, "INVALID_MESSAGE")>>, 0, 0)
  /\ UNCHANGED <<chanVars, dbVars, sigVars, tasks>>

\* handleMessage, default branch: a type no case of the switch names (a frame
\* that is JSON but has no type field ends here too, its type being undefined)
UnknownType(c, id) ==
  /\ CanReceive(c)
  /\ out' = send(<<ErrorFrame(c, "UNKNOWN_MESSAGE")>>)
  /\ ev' = Ran("unknown", c, id, "recv", TRUE, "UNKNOWN_MESSAGE",
               <<ErrorFrame(c, "UNKNOWN_MESSAGE")>>, 0, 0)
  /\ UNCHANGED <<chanVars, dbVars, sigVars, tasks>>

\* the handler of request (op, c, id) stops at a guard with an error frame
Refuse(op, c, id, code) ==
  /\ out' = send(<<ErrorFrame(c, code)>>)
  /\ ev' = Ran(op, c, id, "recv", TRUE, code, <<ErrorFrame(c, code)>>, 0, 0)
  /\ UNCHANGED <<chanVars, dbVars, sigVars, tasks>>

\* the handler suspends on its first storage call
Suspend(op, c, id, t) ==
  /\ CanSuspend
  /\ t \notin tasks
  /\ tasks' = tasks \cup {t}
  /\ out' = NoFrames
  /\ ev' = Ran(op, c, id, "recv", FALSE, None, <<>>, 0, 0)
  /\ UNCHANGED <<chanVars, dbVars, sigVars>>

\* the suspended handler t goes on to its next await as u; two suspended handlers
\* are told apart by their records, so u must not be one already
Moves(t, u) ==
  /\ u \notin tasks
  /\ tasks' = (tasks \ {t}) \cup {u}

\* (variant: the catch block sends nothing)
ThrowsNothing(t, code) ==
  /\ tasks' = tasks \ {t}
  /\ out' = NoFrames
  /\ ev' = Ran(t.kind, t.ch, t.id, t.pc, TRUE, code, <<>>, t.resp, t.errs)
\* a storage call of a message handler throws: ws.on('message') catches
Throws(t, code) ==
  /\ tasks' = tasks \ {t}
  /\ out' = send(<<ErrorFrame(t.ch, code)>>)
  /\ ev' = Ran(t.kind, t.ch, t.id, t.pc, TRUE, code, <<ErrorFrame(t.ch, code)>>,
               t.resp, t.errs)

\* handleAuth with a token that verifyToken rejects, or with no credentials
AuthInvalid(c, id) ==
  /\ CanReceive(c)
  /\ out' = send(<<Response(c, "auth_response", id, FALSE)>>)
  /\ ev' = Ran("auth", c, id, "recv", TRUE, None,
               <<Response(c, "auth_response", id, FALSE)>>, 0, 0)
  /\ UNCHANGED <<chanVars, dbVars, sigVars, tasks>>

\* handleAuth with a token of user u, or with u's email and password
Auth(c, id, u) ==
  /\ CanReceive(c)
  /\ Suspend("auth", c, id, [Task(c, "auth", "auth_db", id) EXCEPT !.user = u])

\* getUserById / loginUser returned
AuthResume(t) ==
  /\ t \in tasks /\ t.pc = "auth_db"
  /\ LET ok == t.user \in users
         fs == <<Response(t.ch, "auth_response", t.id, ok)>>
     IN /\ client' = IF ok
                     THEN [client EXCEPT ![t.ch].authenticated = TRUE,
                                         ![t.ch].userId = t.user]
                     ELSE client
        /\ out' = send(fs)
        /\ ev' = Ran("auth", t.ch, t.id, t.pc, TRUE, None, fs, t.resp, t.errs)
  /\ tasks' = tasks \ {t}
  /\ UNCHANGED <<ws, clients, dbVars, sigVars>>

\* handleRegisterUser
RegisterUser(c, id, u) ==
  /\ CanReceive(c)
  /\ Suspend("register_user", c, id,
             [Task(c, "register_user", "reguser_db", id) EXCEPT !.user = u])

\* registerUser returned
RegisterUserResume(t) ==
  /\ t \in tasks /\ t.pc = "reguser_db"
  /\ LET ok == t.user \notin users
         fs == <<Response(t.ch, "register_user_response", t.id, ok)>>
     IN /\ users' = users \cup {t.user}
        /\ client' = IF ok
                     THEN [client EXCEPT ![t.ch].authenticated = TRUE,
                                         ![t.ch].userId = t.user]
                     ELSE client
        /\ out' = send(fs)
        /\ ev' = Ran("register_user", t.ch, t.id, t.pc, TRUE, None, fs,
                     t.resp, t.errs)
  /\ tasks' = tasks \ {t}
  /\ UNCHANGED <<ws, clients, machines, machineSeq, sigVars>>

\* ------------------------------------------------- machines.ts (storage)
RowOf(u, name) ==
  {m \in MachineIds : machines[m].exists /\ machines[m].user_id = u
                      /\ machines[m].name = name}

\* the row registerMachine's upsert returns: the (user_id, name) row, or a new one
registerMachineId(u, name) ==
  IF RowOf(u, name) # {} THEN CHOOSE m \in RowOf(u, name) : TRUE
  ELSE MachineUuids[machineSeq + 1]

registerMachine(u, name) ==
  [machines EXCEPT ![registerMachineId(u, name)] =
     [exists |-> TRUE, user_id |-> u, name |-> name, is_online |-> TRUE,
      last_seen |-> 0]]

updateMachineOnlineStatus(m, isOnline) ==
  [machines EXCEPT ![m] = IF @.exists
                          THEN [@ EXCEPT !.is_online = isOnline, !.last_seen = 0]
                          ELSE @]

\* (variant: the refresh also marks the machine online)
updateMachineHeartbeatOnline(m) ==
  [machines EXCEPT ![m] = IF @.exists
                          THEN [@ EXCEPT !.last_seen = 0, !.is_online = TRUE]
                          ELSE @]
updateMachineHeartbeat(m) ==
  [machines EXCEPT ![m] = IF @.exists THEN [@ EXCEPT !.last_seen = 0] ELSE @]

getMachinesForUser(u) ==
  {m \in MachineIds : machines[m].exists /\ machines[m].user_id = u}

getMachineById(m) == machines[m]

\* the ids markStaleOffline returns: online rows with last_seen < now - timeoutMs
\* (variant: rows that are offline already are returned again)
StaleIdsAnyState(timeoutMs) ==
  {m \in MachineIds : machines[m].exists /\ machines[m].last_seen > timeoutMs}
StaleIds(timeoutMs) ==
  {m \in MachineIds : machines[m].exists /\ machines[m].is_online
                      /\ machines[m].last_seen > timeoutMs}

markStaleOffline(timeoutMs) ==
  [m \in MachineIds |-> IF m \in StaleIds(timeoutMs)
                        THEN [machines[m] EXCEPT !.is_online = FALSE]
                        ELSE machines[m]]

\* (variant: every user may reach every machine)
canUserAccessAnyMachine(u, m) == TRUE
canUserAccessMachine(u, m) ==
  machines[m].exists /\ machines[m].user_id = u

\* deleteMachine / renameMachine touch the row only when u owns it
Owns(u, m) == machines[m].exists /\ machines[m].user_id = u

deleteMachine(u, m) ==
  [machines EXCEPT ![m] = IF Owns(u, m) THEN NoRow ELSE @]

renameMachine(u, m, newName) ==
  [machines EXCEPT ![m] = IF Owns(u, m) THEN [@ EXCEPT !.name = newName] ELSE @]

\* unique(user_id, name): the rename would make a second row of that name
RenameConflicts(u, m, newName) ==
  Owns(u, m) /\ RowOf(u, newName) \ {m} # {}

\* ------------------------------------------------------ presence fan-out
\* broadcastMachineStatus after its getMachineById returned: one frame per entry
\* of machineClients whose channel has the owner's userId and is not excluded
\* (variant: every channel of the registry is told, whoever its user is)
broadcastToAnyUser(m, excludeClient) ==
  SelectSeq(SubSeq(MachineUuids, 1, MaxMachines),
            LAMBDA k : /\ machineClients[k] # None
                       /\ machineClients[k] # excludeClient)
broadcastTo(m, excludeClient) ==
  SelectSeq(SubSeq(MachineUuids, 1, MaxMachines),
            LAMBDA k : /\ machineClients[k] # None
                       /\ client[machineClients[k]].userId = getMachineById(m).user_id
                       /\ machineClients[k] # excludeClient)

broadcastMachineStatus(m, isOnline, excludeClient) ==
  IF ~getMachineById(m).exists THEN <<>>
  ELSE [i \in 1..Len(broadcastTo(m, excludeClient)) |->
          Frame(machineClients[broadcastTo(m, excludeClient)[i]],
                IF isOnline THEN "machine_online" ELSE "machine_offline",
                None, None, None, m, getMachineById(m).name)]

\* !client.authenticated || !client.userId: the request is refused
\* (variant: no request is refused for want of authentication)
NotAuthenticatedNever(c) == FALSE
NotAuthenticated(c) == ~client[c].authenticated \/ client[c].userId = None

\* ------------------------------------------------------- register_machine
RegisterMachine(c, id, name) ==
  /\ CanReceive(c)
  /\ IF NotAuthenticated(c)
     THEN Refuse("register_machine", c, id, "NOT_AUTHENTICATED")
     ELSE Suspend("register_machine", c, id,
                  [Task(c, "register_machine", "regm_upsert", id)
                     EXCEPT !.user = client[c].userId, !.name = name])

\* registerMachine returned: attach the machine and publish the channel
RegisterMachineUpsert(t, ok) ==
  /\ t \in tasks /\ t.pc = "regm_upsert"
  /\ ok => (RowOf(t.user, t.name) # {} \/ machineSeq < MaxMachines)
  /\ IF ~ok
     THEN /\ Throws(t, "REGISTRATION_FAILED")
          /\ UNCHANGED <<chanVars, dbVars, sigVars>>
     ELSE LET m == registerMachineId(t.user, t.name) IN
          /\ machines' = registerMachine(t.user, t.name)
          /\ machineSeq' = IF RowOf(t.user, t.name) = {} THEN machineSeq + 1
                           ELSE machineSeq
          /\ client' = [client EXCEPT ![t.ch].machineId = m]
          /\ machineClients' = [machineClients EXCEPT ![m] = t.ch]
          /\ Moves(t, [t EXCEPT !.pc = "regm_bcast", !.mid = m])
          /\ out' = NoFrames
          /\ ev' = [Ran("register_machine", t.ch, t.id, t.pc, FALSE, None, <<>>,
                        t.resp, t.errs) EXCEPT !.mid = m]
          /\ log' = Renewed(registerMachine(t.user, t.name))
          /\ UNCHANGED <<ws, clients, users, webClients, webClientCounter,
                         pendingConnections, connSeq, timers>>

\* broadcastMachineStatus(machine.id, true, client) returned: machine_registered
RegisterMachineBroadcast(t, ok) ==
  /\ t \in tasks /\ t.pc = "regm_bcast"
  /\ IF ~ok
     THEN Throws(t, "REGISTRATION_FAILED")
     ELSE LET fs == broadcastMachineStatus(t.mid, TRUE, t.ch)
                      \o <<Frame(t.ch, "machine_registered", t.id, None, None,
                                 t.mid, t.name)>>
          IN /\ tasks' = tasks \ {t}
             /\ out' = send(fs)
             /\ ev' = [Ran("register_machine", t.ch, t.id, t.pc, TRUE, None, fs,
                           t.resp, t.errs) EXCEPT !.mid = t.mid]
  /\ UNCHANGED <<chanVars, dbVars, sigVars>>

\* -------------------------------------------------------------- heartbeat
Heartbeat(c, id) ==
  /\ CanReceive(c)
  /\ client' = [client EXCEPT ![c].lastHeartbeat = 0]
  /\ IF client[c].machineId # None
     THEN LET t == [Task(c, "heartbeat", "hb_db", id)
                      EXCEPT !.mid = client[c].machineId]
          IN /\ CanSuspend
             /\ t \notin tasks
             /\ tasks' = tasks \cup {t}
             /\ out' = NoFrames
             /\ ev' = Ran("heartbeat", c, id, "recv", FALSE, None, <<>>, 0, 0)
     ELSE LET fs == <<Frame(c, "heartbeat_ack", None, None, None, None, None)>>
          IN /\ tasks' = tasks
             /\ out' = send(fs)
             /\ ev' = Ran("heartbeat", c, id, "recv", TRUE, None, fs, 0, 0)
  /\ UNCHANGED <<ws, clients, dbVars, sigVars>>

\* updateMachineHeartbeat returned
HeartbeatResume(t, ok) ==
  /\ t \in tasks /\ t.pc = "hb_db"
  /\ IF ~ok
     THEN Throws(t, "INVALID_MESSAGE") /\ machines' = machines
     ELSE LET fs == <<Frame(t.ch, "heartbeat_ack", None, None, None, None, None)>>
          IN /\ machines' = updateMachineHeartbeat(t.mid)
             /\ tasks' = tasks \ {t}
             /\ out' = send(fs)
             /\ ev' = Ran("heartbeat", t.ch, t.id, t.pc, TRUE, None, fs,
                          t.resp, t.errs)
  /\ UNCHANGED <<chanVars, users, machineSeq, sigVars>>

\* ------------------------------- list_machines, delete_machine, rename_machine
OwnerRequest(op, pc, c, id, m, name) ==
  /\ CanReceive(c)
  /\ IF NotAuthenticated(c)
     THEN Refuse(op, c, id, "NOT_AUTHENTICATED")
     ELSE Suspend(op, c, id, [Task(c, op, pc, id) EXCEPT
                                !.user = client[c].userId, !.mid = m, !.name = name])

ListMachines(c, id) == OwnerRequest("list_machines", "list_db", c, id, None, None)
DeleteMachine(c, id, m) == OwnerRequest("delete_machine", "delete_db", c, id, m, None)
RenameMachine(c, id, m, newName) ==
  OwnerRequest("rename_machine", "rename_db", c, id, m, newName)

\* getMachinesForUser returned
ListMachinesResume(t, ok) ==
  /\ t \in tasks /\ t.pc = "list_db"
  /\ IF ~ok
     THEN Throws(t, "INVALID_MESSAGE")
     ELSE LET fs == <<Frame(t.ch, "machines_list", t.id, None, None, None, None)>>
          IN /\ tasks' = tasks \ {t}
             /\ out' = send(fs)
             /\ ev' = Ran("list_machines", t.ch, t.id, t.pc, TRUE, None, fs,
                          t.resp, t.errs)
  /\ UNCHANGED <<chanVars, dbVars, sigVars>>

\* deleteMachine returned
DeleteMachineResume(t, ok) ==
  /\ t \in tasks /\ t.pc = "delete_db"
  /\ IF ~ok
     THEN Throws(t, "INVALID_MESSAGE") /\ machines' = machines /\ log' = log
     ELSE LET fs == <<Frame(t.ch, "delete_machine_response", t.id,
                            IF Owns(t.user, t.mid) THEN "success" ELSE "failure",
                            None, t.mid, None)>>
          IN /\ machines' = deleteMachine(t.user, t.mid)
             /\ log' = Renewed(deleteMachine(t.user, t.mid))
             /\ tasks' = tasks \ {t}
             /\ out' = send(fs)
             /\ ev' = [Ran("delete_machine", t.ch, t.id, t.pc, TRUE, None, fs,
                           t.resp, t.errs) EXCEPT !.mid = t.mid]
  /\ UNCHANGED <<chanVars, users, machineSeq, machineClients, webClients,
                 webClientCounter, pendingConnections, connSeq, timers>>

\* renameMachine returned, or threw on unique(user_id, name)
RenameMachineResume(t, ok) ==
  /\ t \in tasks /\ t.pc = "rename_db"
  /\ IF ~ok \/ RenameConflicts(t.user, t.mid, t.name)
     THEN Throws(t, "INVALID_MESSAGE") /\ machines' = machines
     ELSE LET fs == <<Frame(t.ch, "rename_machine_response", t.id,
                            IF Owns(t.user, t.mid) THEN "success" ELSE "failure",
                            None, t.mid, t.name)>>
          IN /\ machines' = renameMachine(t.user, t.mid, t.name)
             /\ tasks' = tasks \ {t}
             /\ out' = send(fs)
             /\ ev' = [Ran("rename_machine", t.ch, t.id, t.pc, TRUE, None, fs,
                           t.resp, t.errs) EXCEPT !.mid = t.mid]
  /\ UNCHANGED <<chanVars, users, machineSeq, sigVars>>

\* ------------------------------------------------------ connect_to_machine
ConnectToMachine(c, id, targetMachineId) ==
  /\ CanReceive(c)
  /\ IF NotAuthenticated(c)
     THEN Refuse("connect_to_machine", c, id, "NOT_AUTHENTICATED")
     ELSE Suspend("connect_to_machine", c, id,
                  [Task(c, "connect_to_machine", "conn_access", id)
                     EXCEPT !.user = client[c].userId, !.mid = targetMachineId])

\* the rest of handleConnectToMachine, from the creation of the pending connection:
\* store it, send connection_request to the target channel found earlier, arm the timer
ConnectFinish(t, targetClient, clientId, sourceName, owned) ==
  LET k == ConnUuids[connSeq + 1]
      fs == <<Frame(targetClient, "connection_request", None, None, k,
                    clientId, sourceName)>>
  IN /\ connSeq < MaxConns
     /\ connSeq' = connSeq + 1
     /\ pendingConnections' =
          [pendingConnections EXCEPT ![k] =
             [exists |-> TRUE, fromMachineId |-> client[t.ch].machineId,
              fromClientId |-> clientId, toMachineId |-> t.mid,
              fromClient |-> t.ch]]
     /\ timers' = timers \cup {[conn |-> k, client |-> t.ch, clientId |-> clientId]}
     /\ log' = Logged(k, fs)
     /\ tasks' = tasks \ {t}
     /\ out' = send(fs)
     /\ ev' = [Ran("connect_to_machine", t.ch, t.id, t.pc, TRUE, None, fs,
                   t.resp, t.errs)
                 EXCEPT !.conn = k, !.mid = t.mid, !.owned = owned]

\* the handler ends with an error frame to the requester
ConnectRefuse(t, code, owned) ==
  /\ tasks' = tasks \ {t}
  /\ out' = send(<<ErrorFrame(t.ch, code)>>)
  /\ ev' = [Ran("connect_to_machine", t.ch, t.id, t.pc, TRUE, code,
                <<ErrorFrame(t.ch, code)>>, t.resp, t.errs)
              EXCEPT !.mid = t.mid, !.owned = owned]
  /\ UNCHANGED <<chanVars, dbVars, sigVars>>

\* (variant: the online check comes first)
connectCheckOnlineFirst(u, m) ==
  IF machineClients[m] = None THEN "MACHINE_OFFLINE"
  ELSE IF ~canUserAccessMachine(u, m) THEN "ACCESS_DENIED"
  ELSE None
\* the two checks of handleConnectToMachine, in the order the code makes them:
\* the error code the request ends with, or None when it passes both
connectCheck(u, m) ==
  IF ~canUserAccessMachine(u, m) THEN "ACCESS_DENIED"
  ELSE IF machineClients[m] = None THEN "MACHINE_OFFLINE"
  ELSE None

\* let clientId = client.machineId; if (!clientId) clientId = `web-client-${++n}`
\* (variant: the id is made from the counter before the increment)
originatorIdStale(c) ==
  IF client[c].machineId # None THEN client[c].machineId
  ELSE WebClientId(IF webClientCounter = 0 THEN 1 ELSE webClientCounter)
originatorId(c) ==
  IF client[c].machineId # None THEN client[c].machineId
  ELSE WebClientId(webClientCounter + 1)

\* canUserAccessMachine returned: access check, target lookup, originator id
ConnectAccess(t, ok) ==
  /\ t \in tasks /\ t.pc = "conn_access"
  /\ LET owned == machines[t.mid].exists /\ machines[t.mid].user_id = t.user
         targetClient == machineClients[t.mid]
     IN IF ~ok
        THEN Throws(t, "INVALID_MESSAGE") /\ UNCHANGED <<chanVars, dbVars, sigVars>>
        ELSE IF connectCheck(t.user, t.mid) # None
        THEN ConnectRefuse(t, connectCheck(t.user, t.mid), owned)
        ELSE IF client[t.ch].machineId # None
        THEN \* a machine: await getMachineById(client.machineId)
             /\ Moves(t, [t EXCEPT !.pc = "conn_name", !.target = targetClient,
                                   !.clientId = originatorId(t.ch),
                                   !.owned = owned])
             /\ out' = NoFrames
             /\ ev' = [Ran("connect_to_machine", t.ch, t.id, t.pc, FALSE, None,
                           <<>>, t.resp, t.errs)
                         EXCEPT !.mid = t.mid, !.owned = owned]
             /\ UNCHANGED <<chanVars, dbVars, sigVars>>
        ELSE \* a web client: mint `web-client-${++webClientCounter}`
             /\ webClientCounter < MaxWeb
             /\ webClientCounter' = webClientCounter + 1
             /\ webClients' = [webClients EXCEPT ![originatorId(t.ch)] = t.ch]
             /\ ConnectFinish(t, targetClient, originatorId(t.ch),
                              "Web Client", owned)
             /\ UNCHANGED <<chanVars, dbVars, machineClients>>

\* getMachineById(client.machineId) returned: the source name
ConnectName(t, ok) ==
  /\ t \in tasks /\ t.pc = "conn_name"
  /\ IF ~ok
     THEN Throws(t, "INVALID_MESSAGE") /\ UNCHANGED sigVars
     ELSE /\ ConnectFinish(t, t.target, t.clientId,
                           IF getMachineById(t.clientId).exists
                           THEN getMachineById(t.clientId).name ELSE "Web Client",
                           t.owned)
          /\ UNCHANGED <<machineClients, webClients, webClientCounter>>
  /\ UNCHANGED <<chanVars, dbVars>>

\* pendingConnections.has(connectionId)
\* (variant: the timer does not look at the table)
hasPendingAlways(k) == TRUE
hasPending(k) == pendingConnections[k].exists

\* pendingConnections.delete(connectionId) of the timer
\* (variant: the timer leaves the connection in the table)
expirePendingNever(k) == pendingConnections
expirePending(k) == [pendingConnections EXCEPT ![k] = NoPending]

\* the 30 s timer of a connection fires
ConnectionTimeout(tm) ==
  /\ tm \in timers
  /\ timers' = timers \ {tm}
  /\ IF hasPending(tm.conn)
     THEN LET fs == <<ErrorFrame(tm.client, "CONNECTION_TIMEOUT")>>
          IN /\ pendingConnections' = expirePending(tm.conn)
             /\ webClients' = IF client[tm.client].machineId = None
                                 /\ tm.clientId \in WebIds
                              THEN [webClients EXCEPT ![tm.clientId] = None]
                              ELSE webClients
             /\ out' = send(fs)
             /\ log' = [Logged(tm.conn, fs) EXCEPT ![tm.conn].fired = TRUE]
             /\ ev' = [Event("timer", tm.client, None) EXCEPT
                         !.conn = tm.conn, !.code = "CONNECTION_TIMEOUT"]
     ELSE /\ UNCHANGED <<pendingConnections, webClients>>
          /\ log' = [log EXCEPT ![tm.conn].fired = TRUE]
          /\ out' = NoFrames
          /\ ev' = [Event("timer", tm.client, None) EXCEPT !.conn = tm.conn]
  /\ UNCHANGED <<chanVars, dbVars, machineClients, webClientCounter, connSeq, tasks>>

\* ---------------------------------------------- the synchronous handlers
\* a synchronous handler of request (op, c, id) on connection k sent fs
Handled(op, c, id, k, m, code, fs) ==
  /\ out' = send(fs)
  /\ log' = Logged(k, fs)
  /\ ev' = [Ran(op, c, id, "recv", TRUE, code, fs, 0, 0)
              EXCEPT !.conn = k, !.mid = m]

\* "the accepting (rejecting) client is the target machine"
\* (variant: any channel may answer for the target)
IsTargetAnyone(c, p) == TRUE
IsTarget(c, p) == client[c].machineId = p.toMachineId

\* the notice for the initiator: { connectionId, targetMachineId: pending.toMachineId }
\* (variant: the notice names the originator's id)
acceptedNoticeOfOriginator(p, k) ==
  Frame(p.fromClient, "connection_accepted", None, None, k, p.fromClientId, None)
acceptedNotice(p, k) ==
  Frame(p.fromClient, "connection_accepted", None, None, k, p.toMachineId, None)

handleConnectionAccepted(c, id, k) ==
  /\ CanReceive(c)
  /\ LET p == pendingConnections[k] IN
     IF ~p.exists
     THEN Handled("connection_accepted", c, id, k, None, "CONNECTION_NOT_FOUND",
                  <<ErrorFrame(c, "CONNECTION_NOT_FOUND")>>)
     ELSE IF ~IsTarget(c, p)
     THEN Handled("connection_accepted", c, id, k, None, "INVALID_CONNECTION",
                  <<ErrorFrame(c, "INVALID_CONNECTION")>>)
     ELSE Handled("connection_accepted", c, id, k, None, None,
                  <<acceptedNotice(p, k)>>)
  /\ UNCHANGED <<chanVars, dbVars, machineClients, webClients, webClientCounter,
                 pendingConnections, connSeq, timers, tasks>>

\* pendingConnections.delete(connectionId) of a rejection
\* (variant: the rejected connection stays in the table)
deletePendingNever(k) == pendingConnections
deletePending(k) == [pendingConnections EXCEPT ![k] = NoPending]

handleConnectionRejected(c, id, k) ==
  /\ CanReceive(c)
  /\ LET p == pendingConnections[k] IN
     IF ~p.exists \/ ~IsTarget(c, p)
     THEN /\ Handled("connection_rejected", c, id, k, None, "dropped", <<>>)
          /\ UNCHANGED pendingConnections
     ELSE /\ Handled("connection_rejected", c, id, k, None, None,
                     <<Frame(p.fromClient, "connection_rejected", None, None, k,
                             None, None)>>)
          /\ pendingConnections' = deletePending(k)
  /\ UNCHANGED <<chanVars, dbVars, machineClients, webClients, webClientCounter,
                 connSeq, timers, tasks>>

\* machineClients.get(id) || webClients.get(id)
getClientById(id) ==
  IF id \in MachineIds /\ machineClients[id] # None THEN machineClients[id]
  ELSE IF id \in WebIds THEN webClients[id]
  ELSE None

\* client.machineId || pending.fromClientId
SenderId(c, p) ==
  IF client[c].machineId # None THEN client[c].machineId ELSE p.fromClientId

\* "the client is part of this connection"
IsParticipant(c, p) ==
  \/ p.fromClient = c
  \/ SenderId(c, p) = p.fromClientId
  \/ client[c].machineId = p.toMachineId

handleRTCOffer(c, id, k, targetMachineId) ==
  /\ CanReceive(c)
  /\ LET p == pendingConnections[k]
         targetClient == IF targetMachineId \in MachineIds
                         THEN machineClients[targetMachineId] ELSE None
     IN
     IF ~p.exists
     THEN Handled("rtc_offer", c, id, k, targetMachineId, "CONNECTION_NOT_FOUND",
                  <<ErrorFrame(c, "CONNECTION_NOT_FOUND")>>)
     ELSE IF ~IsParticipant(c, p)
     THEN Handled("rtc_offer", c, id, k, targetMachineId, "INVALID_CONNECTION",
                  <<ErrorFrame(c, "INVALID_CONNECTION")>>)
     ELSE IF targetClient = None
     THEN Handled("rtc_offer", c, id, k, targetMachineId, "MACHINE_OFFLINE",
                  <<ErrorFrame(c, "MACHINE_OFFLINE")>>)
     ELSE Handled("rtc_offer", c, id, k, targetMachineId, None,
                  <<Frame(targetClient, "rtc_offer", None, None, k,
                          SenderId(c, p), None)>>)
  /\ UNCHANGED <<chanVars, dbVars, machineClients, webClients, webClientCounter,
                 pendingConnections, connSeq, timers, tasks>>

\* pending.fromClientId && !pending.fromMachineId: the originator was a web client
\* (variant: an answer never clears the web-client table)
originatorWasWebNever(p) == FALSE
originatorWasWeb(p) == p.fromClientId \in WebIds /\ p.fromMachineId = None

handleRTCAnswer(c, id, k, targetMachineId) ==
  /\ CanReceive(c)
  /\ LET p == pendingConnections[k]
         targetClient == getClientById(targetMachineId)
     IN
     IF ~p.exists
     THEN /\ Handled("rtc_answer", c, id, k, targetMachineId, "CONNECTION_NOT_FOUND",
                     <<ErrorFrame(c, "CONNECTION_NOT_FOUND")>>)
          /\ UNCHANGED <<pendingConnections, webClients>>
     ELSE IF targetClient = None
     THEN /\ Handled("rtc_answer", c, id, k, targetMachineId, "MACHINE_OFFLINE",
                     <<ErrorFrame(c, "MACHINE_OFFLINE")>>)
          /\ UNCHANGED <<pendingConnections, webClients>>
     ELSE /\ Handled("rtc_answer", c, id, k, targetMachineId, None,
                     <<Frame(targetClient, "rtc_answer", None, None, k,
                             IF client[c].machineId # None THEN client[c].machineId
                             ELSE p.toMachineId, None)>>)
          /\ webClients' = IF originatorWasWeb(p)
                           THEN [webClients EXCEPT ![p.fromClientId] = None]
                           ELSE webClients
          /\ pendingConnections' = [pendingConnections EXCEPT ![k] = NoPending]
  /\ UNCHANGED <<chanVars, dbVars, machineClients, webClientCounter, connSeq,
                 timers, tasks>>

handleRTCIceCandidate(c, id, k, targetMachineId) ==
  /\ CanReceive(c)
  /\ LET p == pendingConnections[k]
         targetClient == getClientById(targetMachineId)
     IN
     IF targetClient = None
     THEN Handled("rtc_ice_candidate", c, id, k, targetMachineId, "dropped", <<>>)
     ELSE Handled("rtc_ice_candidate", c, id, k, targetMachineId, None,
                  <<Frame(targetClient, "rtc_ice_candidate", None, None, k,
                          IF client[c].machineId # None THEN client[c].machineId
                          ELSE IF p.exists THEN p.fromClientId ELSE None, None)>>)
  /\ UNCHANGED <<chanVars, dbVars, machineClients, webClients, webClientCounter,
                 pendingConnections, connSeq, timers, tasks>>

\* ------------------------------------------------------ close and sweep
unregisterMachineClient(m) == [machineClients EXCEPT ![m] = None]

\* handleDisconnect has no statement on pendingConnections: the table after it
\* (variant: the connections the closing channel asked for are dropped)
pendingAfterDisconnectDropped(c) ==
  [k \in ConnIds |-> IF pendingConnections[k].fromClient = c THEN NoPending
                     ELSE pendingConnections[k]]
pendingAfterDisconnect(c) == pendingConnections

\* ws.on('close'): the peer closed the socket, or the close the sweep asked for
\* completed; handleDisconnect runs up to its first await
Close(c) ==
  /\ ws[c] \in {"OPEN", "CLOSING"}
  /\ ws' = [ws EXCEPT ![c] = "CLOSED"]
  /\ IF client[c].machineId # None
     THEN LET t == [Task(c, "disconnect", "disc_update", None)
                      EXCEPT !.mid = client[c].machineId]
          IN /\ CanSuspend
             /\ t \notin tasks
             /\ machineClients' = unregisterMachineClient(client[c].machineId)
             /\ tasks' = tasks \cup {t}
             /\ clients' = clients
             /\ ev' = [Event("close", c, None) EXCEPT !.done = FALSE,
                                                      !.mid = client[c].machineId]
     ELSE /\ clients' = clients \ {c}
          /\ UNCHANGED <<machineClients, tasks>>
          /\ ev' = Event("close", c, None)
  /\ out' = NoFrames
  /\ pendingConnections' = pendingAfterDisconnect(c)
  /\ UNCHANGED <<client, dbVars, webClients, webClientCounter, connSeq, timers, log>>

\* handleDisconnect: updateMachineOnlineStatus(machineId, false) returned; the
\* call of broadcastMachineStatus reads client.machineId again (kept in clientId)
DisconnectUpdate(t) ==
  /\ t \in tasks /\ t.pc = "disc_update"
  /\ machines' = updateMachineOnlineStatus(t.mid, FALSE)
  /\ Moves(t, [t EXCEPT !.pc = "disc_bcast",
                        !.clientId = client[t.ch].machineId])
  /\ out' = NoFrames
  /\ ev' = [Event("close", t.ch, None) EXCEPT !.pc = t.pc, !.done = FALSE,
                                              !.mid = t.mid]
  /\ log' = Renewed(updateMachineOnlineStatus(t.mid, FALSE))
  /\ UNCHANGED <<chanVars, users, machineSeq, machineClients, webClients,
                 webClientCounter, pendingConnections, connSeq, timers>>

\* handleDisconnect: broadcastMachineStatus(machineId, false) returned;
\* then clients.delete(ws)
DisconnectBroadcast(t) ==
  /\ t \in tasks /\ t.pc = "disc_bcast"
  /\ tasks' = tasks \ {t}
  /\ clients' = clients \ {t.ch}
  /\ out' = send(broadcastMachineStatus(t.clientId, FALSE, None))
  /\ ev' = [Event("close", t.ch, None) EXCEPT !.pc = t.pc, !.mid = t.mid]
  /\ log' = Told(broadcastMachineStatus(t.clientId, FALSE, None))
  /\ UNCHANGED <<ws, client, dbVars, machineClients, webClients,
                 webClientCounter, pendingConnections, connSeq, timers>>

\* elapsed > config.heartbeatTimeout
\* (variant: a channel is stale as soon as its age reaches the timeout)
IsStaleClientAtTimeout(c) == client[c].lastHeartbeat >= heartbeatTimeout
IsStaleClient(c) == client[c].lastHeartbeat > heartbeatTimeout

\* the setInterval callback: close the stale channels, then await markStaleOffline
Sweep ==
  /\ CanSuspend
  /\ Task(None, "sweep", "sweep_mark", None) \notin tasks
  /\ ws' = [c \in Channels |->
              IF c \in clients /\ IsStaleClient(c) /\ ws[c] = "OPEN"
              THEN "CLOSING" ELSE ws[c]]
  /\ tasks' = tasks \cup {Task(None, "sweep", "sweep_mark", None)}
  /\ out' = NoFrames
  /\ ev' = [Event("sweep", None, None) EXCEPT !.done = FALSE]
  /\ UNCHANGED <<clients, client, dbVars, sigVars>>

\* markStaleOffline returned its ids
SweepMark(t) ==
  /\ t \in tasks /\ t.pc = "sweep_mark"
  /\ machines' = markStaleOffline(heartbeatTimeout)
  /\ IF StaleIds(heartbeatTimeout) = {} THEN tasks' = tasks \ {t}
     ELSE Moves(t, [t EXCEPT !.pc = "sweep_bcast",
                             !.rest = StaleIds(heartbeatTimeout)])
  /\ out' = NoFrames
  /\ ev' = [Event("sweep", None, None) EXCEPT
              !.pc = t.pc, !.done = (StaleIds(heartbeatTimeout) = {})]
  /\ log' = Renewed(markStaleOffline(heartbeatTimeout))
  /\ UNCHANGED <<chanVars, users, machineSeq, machineClients, webClients,
                 webClientCounter, pendingConnections, connSeq, timers>>

\* the sweep's broadcastMachineStatus(machineId, false) returned, for one stale id
SweepBroadcast(t, m) ==
  /\ t \in tasks /\ t.pc = "sweep_bcast" /\ m \in t.rest
  /\ IF t.rest = {m} THEN tasks' = tasks \ {t}
     ELSE Moves(t, [t EXCEPT !.rest = t.rest \ {m}])
  /\ out' = send(broadcastMachineStatus(m, FALSE, None))
  /\ ev' = [Event("sweep", None, None) EXCEPT
              !.pc = t.pc, !.done = (t.rest = {m}), !.mid = m]
  /\ log' = Told(broadcastMachineStatus(m, FALSE, None))
  /\ UNCHANGED <<chanVars, dbVars, machineClients, webClients,
                 webClientCounter, pendingConnections, connSeq, timers>>

\* heartbeatInterval ms pass: every stamp is that much older
Tick ==
  /\ client' = [c \in Channels |->
                  IF ws[c] \in {"OPEN", "CLOSING"}
                  THEN [client[c] EXCEPT !.lastHeartbeat = Older(@)]
                  ELSE client[c]]
  /\ machines' = [m \in MachineIds |->
                    IF machines[m].exists
                    THEN [machines[m] EXCEPT !.last_seen = Older(@)]
                    ELSE machines[m]]
  /\ out' = NoFrames
  /\ ev' = Event("tick", None, None)
  /\ UNCHANGED <<ws, clients, users, machineSeq, sigVars, tasks>>

\* --------------------------------------------------------------- the system
Receive(c) ==
  \E id \in MsgIds :
    \/ Malformed(c)
    \/ UnknownType(c, id)
    \/ AuthInvalid(c, id)
    \/ \E u \in Users : Auth(c, id, u)
    \/ \E u \in Users : RegisterUser(c, id, u)
    \/ \E n \in Names : RegisterMachine(c, id, n)
    \/ Heartbeat(c, id)
    \/ ListMachines(c, id)
    \/ \E m \in MachineIds : DeleteMachine(c, id, m)
    \/ \E m \in MachineIds, n \in Names : RenameMachine(c, id, m, n)
    \/ \E m \in MachineIds : ConnectToMachine(c, id, m)
    \/ \E k \in ConnIds : handleConnectionAccepted(c, id, k)
    \/ \E k \in ConnIds : handleConnectionRejected(c, id, k)
    \/ \E k \in ConnIds, m \in MachineIds \cup WebIds : handleRTCOffer(c, id, k, m)
    \/ \E k \in ConnIds, m \in MachineIds \cup WebIds : handleRTCAnswer(c, id, k, m)
    \/ \E k \in ConnIds, m \in MachineIds \cup WebIds :
         handleRTCIceCandidate(c, id, k, m)

Resume(t) ==
  \/ AuthResume(t)
  \/ RegisterUserResume(t)
  \/ \E ok \in BOOLEAN : RegisterMachineUpsert(t, ok)
  \/ \E ok \in BOOLEAN : RegisterMachineBroadcast(t, ok)
  \/ \E ok \in BOOLEAN : HeartbeatResume(t, ok)
  \/ \E ok \in BOOLEAN : ListMachinesResume(t, ok)
  \/ \E ok \in BOOLEAN : DeleteMachineResume(t, ok)
  \/ \E ok \in BOOLEAN : RenameMachineResume(t, ok)
  \/ \E ok \in BOOLEAN : ConnectAccess(t, ok)
  \/ \E ok \in BOOLEAN : ConnectName(t, ok)
  \/ DisconnectUpdate(t)
  \/ DisconnectBroadcast(t)
  \/ SweepMark(t)
  \/ \E m \in MachineIds : SweepBroadcast(t, m)

Next ==
  \/ \E c \in Channels : Connection(c)
  \/ \E c \in Channels : Receive(c)
  \/ \E c \in Channels : Close(c)
  \/ \E t \in tasks : Resume(t)
  \/ \E tm \in timers : ConnectionTimeout(tm)
  \/ Sweep
  \/ Tick

Spec == Init /\ [][Next]_vars

\* ----------------------------------------------------- settled servers
\* The server after its channels have connected, authenticated and registered:
\* userOf gives each channel's user (None: connected, not authenticated; "off":
\* not connected), machineOf the machine it registered, rows the machines table
Row(u, name) == [exists |-> TRUE, user_id |-> u, name |-> name,
                 is_online |-> FALSE, last_seen |-> 0]

Settled(userOf, machineOf, rows) ==
  /\ ws = [c \in Channels |-> IF userOf[c] = "off" THEN "NONE" ELSE "OPEN"]
  /\ clients = {c \in Channels : userOf[c] # "off"}
  /\ client = [c \in Channels |->
                 [authenticated |-> userOf[c] \in Users,
                  userId |-> IF userOf[c] \in Users THEN userOf[c] ELSE None,
                  machineId |-> machineOf[c], lastHeartbeat |-> 0]]
  /\ users = Users
  /\ machines = [m \in MachineIds |->
                   IF \E c \in Channels : machineOf[c] = m
                   THEN [rows[m] EXCEPT !.is_online = TRUE] ELSE rows[m]]
  /\ machineSeq = Cardinality({m \in MachineIds : rows[m].exists})
  /\ machineClients = [m \in MachineIds |->
                         IF \E c \in Channels : machineOf[c] = m
                         THEN CHOOSE c \in Channels : machineOf[c] = m ELSE None]
  /\ webClients = [w \in WebIds |-> None]
  /\ webClientCounter = 0
  /\ pendingConnections = [k \in ConnIds |-> NoPending]
  /\ connSeq = 0
  /\ timers = {}
  /\ log = NoLogs
  /\ tasks = {}
  /\ out = NoFrames
  /\ ev = Event("init", None, None)

\* alice's two machines, laptop (m1) and desk (m2), and nothing else
AliceRows == [m \in MachineIds |->
                IF m = "m1" THEN Row("alice", "laptop")
                ELSE IF m = "m2" THEN Row("alice", "desk") ELSE NoRow]

\* c1 is alice's laptop, c2 her desk, c3 a browser of alice or of bob
InitSig ==
  \E u \in Users :
    Settled([c \in Channels |-> IF c = "c1" \/ c = "c2" THEN "alice"
                                ELSE IF c = "c3" THEN u ELSE "off"],
            [c \in Channels |-> IF c = "c1" THEN "m1"
                                ELSE IF c = "c2" THEN "m2" ELSE None],
            AliceRows)

\* ---- connection requests: alice's desk and the browser ask for machines, the
\* laptop's channel may close, and any channel may send connection_accepted
NextConnect ==
  \/ \E c \in {"c2", "c3"}, id \in MsgIds, m \in MachineIds : ConnectToMachine(c, id, m)
  \/ \E t \in tasks, ok \in BOOLEAN : ConnectAccess(t, ok)
  \/ \E t \in tasks, ok \in BOOLEAN : ConnectName(t, ok)
  \/ \E c \in Channels, id \in MsgIds, k \in ConnIds :
       handleConnectionAccepted(c, id, k)
  \/ \E tm \in timers : ConnectionTimeout(tm)
  \/ Close("c1")
  \/ \E t \in tasks : DisconnectUpdate(t)
  \/ \E t \in tasks : DisconnectBroadcast(t)

SpecConnect == InitSig /\ [][NextConnect]_vars

\* ---- the life of a connection: requests for the laptop from the desk and the
\* browser, rejections and answers from any channel, the timers, and the browser
\* going away
NextSession ==
  \/ \E c \in {"c2", "c3"}, id \in MsgIds : ConnectToMachine(c, id, "m1")
  \/ \E t \in tasks, ok \in BOOLEAN : ConnectAccess(t, ok)
  \/ \E t \in tasks, ok \in BOOLEAN : ConnectName(t, ok)
  \/ \E c \in Channels, id \in MsgIds, k \in ConnIds :
       handleConnectionRejected(c, id, k)
  \/ \E c \in Channels, id \in MsgIds, k \in ConnIds, m \in MachineIds \cup WebIds :
       handleRTCAnswer(c, id, k, m)
  \/ \E tm \in timers : ConnectionTimeout(tm)
  \/ Close("c3")

SpecSession == InitSig /\ [][NextSession]_vars

\* ---- presence: the browser's channel registers machines while the laptop's
\* channel closes and the desk asks for the laptop
NextPresence ==
  \/ \E id \in MsgIds : ConnectToMachine("c2", id, "m1")
  \/ \E t \in tasks, ok \in BOOLEAN : ConnectAccess(t, ok)
  \/ \E t \in tasks, ok \in BOOLEAN : ConnectName(t, ok)
  \/ \E c \in {"c1", "c3"}, id \in MsgIds, n \in Names : RegisterMachine(c, id, n)
  \/ \E t \in tasks, ok \in BOOLEAN : RegisterMachineUpsert(t, ok)
  \/ \E t \in tasks, ok \in BOOLEAN : RegisterMachineBroadcast(t, ok)
  \/ \E c \in {"c1", "c3"} : Close(c)
  \/ \E t \in tasks : DisconnectUpdate(t)
  \/ \E t \in tasks : DisconnectBroadcast(t)

SpecPresence == InitSig /\ [][NextPresence]_vars

\* ---- the hub: c1 is alice's laptop, c2 a channel that has not authenticated.
\* Every type of message arrives, one request at a time (the next one when no
\* handler is suspended), and every storage call of a message handler may fail
InitHub ==
  Settled([c \in Channels |-> IF c = "c1" THEN "alice"
                              ELSE IF c = "c2" THEN None ELSE "off"],
          [c \in Channels |-> IF c = "c1" THEN "m1" ELSE None],
          AliceRows)

HubChannels == {"c1", "c2"}

\* the ids the rtc messages of the hub name as their target: the laptop and the
\* first web client
HubTargets == {"m1", "web-client-1"}

NextHub ==
  \/ \E c \in HubChannels : tasks = {} /\ Malformed(c)
  \/ \E c \in HubChannels, id \in MsgIds : tasks = {} /\ UnknownType(c, id)
  \/ \E id \in MsgIds : tasks = {} /\ AuthInvalid("c2", id)
  \/ \E id \in MsgIds, u \in Users : tasks = {} /\ Auth("c2", id, u)
  \/ \E id \in MsgIds, u \in Users : tasks = {} /\ RegisterUser("c2", id, u)
  \/ \E id \in MsgIds : tasks = {} /\ RegisterMachine("c2", id, "desk")
  \/ \E c \in HubChannels, id \in MsgIds : tasks = {} /\ Heartbeat(c, id)
  \/ \E id \in MsgIds : tasks = {} /\ ListMachines("c2", id)
  \/ \E id \in MsgIds, m \in MachineIds : tasks = {} /\ DeleteMachine("c2", id, m)
  \/ \E id \in MsgIds, m \in MachineIds :
       tasks = {} /\ RenameMachine("c2", id, m, "laptop")
  \/ \E id \in MsgIds : tasks = {} /\ connSeq < 1 /\ ConnectToMachine("c2", id, "m1")
  \/ \E c \in HubChannels, id \in MsgIds :
       tasks = {} /\ handleConnectionAccepted(c, id, "k1")
  \/ \E c \in HubChannels, id \in MsgIds :
       tasks = {} /\ handleConnectionRejected(c, id, "k1")
  \/ \E c \in HubChannels, id \in MsgIds, m \in HubTargets :
       tasks = {} /\ handleRTCOffer(c, id, "k1", m)
  \/ \E c \in HubChannels, id \in MsgIds, m \in HubTargets :
       tasks = {} /\ handleRTCAnswer(c, id, "k1", m)
  \/ \E c \in HubChannels, id \in MsgIds, m \in HubTargets :
       tasks = {} /\ handleRTCIceCandidate(c, id, "k1", m)
  \/ \E t \in tasks : AuthResume(t)
  \/ \E t \in tasks : RegisterUserResume(t)
  \/ \E t \in tasks, ok \in BOOLEAN : RegisterMachineUpsert(t, ok)
  \/ \E t \in tasks, ok \in BOOLEAN : RegisterMachineBroadcast(t, ok)
  \/ \E t \in tasks, ok \in BOOLEAN : HeartbeatResume(t, ok)
  \/ \E t \in tasks, ok \in BOOLEAN : ListMachinesResume(t, ok)
  \/ \E t \in tasks, ok \in BOOLEAN : DeleteMachineResume(t, ok)
  \/ \E t \in tasks, ok \in BOOLEAN : RenameMachineResume(t, ok)
  \/ \E t \in tasks, ok \in BOOLEAN : ConnectAccess(t, ok)
  \/ \E t \in tasks, ok \in BOOLEAN : ConnectName(t, ok)
  \/ \E tm \in timers : ConnectionTimeout(tm)

SpecHub == InitHub /\ [][NextHub]_vars

\* ---- the relay: one request for the laptop, from the desk or from the browser,
\* the laptop's connection_accepted, offers, answers and candidates from any
\* channel, and the timer
RelayTargets == {"m1", "m2", "web-client-1"}

NextRelay ==
  \/ \E c \in {"c2", "c3"}, id \in MsgIds :
       connSeq < 1 /\ tasks = {} /\ ConnectToMachine(c, id, "m1")
  \/ \E t \in tasks, ok \in BOOLEAN : ConnectAccess(t, ok)
  \/ \E t \in tasks, ok \in BOOLEAN : ConnectName(t, ok)
  \/ \E id \in MsgIds, k \in ConnIds : handleConnectionAccepted("c1", id, k)
  \/ \E c \in Channels, id \in MsgIds, k \in ConnIds, m \in RelayTargets :
       handleRTCOffer(c, id, k, m)
  \/ \E c \in Channels, id \in MsgIds, k \in ConnIds, m \in RelayTargets :
       handleRTCAnswer(c, id, k, m)
  \/ \E c \in Channels, id \in MsgIds, k \in ConnIds, m \in RelayTargets :
       handleRTCIceCandidate(c, id, k, m)
  \/ \E tm \in timers : ConnectionTimeout(tm)

SpecRelay == InitSig /\ [][NextRelay]_vars

\* ---- the browser: it asks for the laptop and may register a machine of its
\* own or go away; the laptop rejects or answers; the timers fire
NextBrowser ==
  \/ \E id \in MsgIds : ConnectToMachine("c3", id, "m1")
  \/ \E t \in tasks, ok \in BOOLEAN : ConnectAccess(t, ok)
  \/ \E id \in MsgIds, n \in Names : RegisterMachine("c3", id, n)
  \/ \E t \in tasks, ok \in BOOLEAN : RegisterMachineUpsert(t, ok)
  \/ \E t \in tasks, ok \in BOOLEAN : RegisterMachineBroadcast(t, ok)
  \/ \E id \in MsgIds, k \in ConnIds : handleConnectionRejected("c1", id, k)
  \/ \E id \in MsgIds, k \in ConnIds, m \in WebIds : handleRTCAnswer("c1", id, k, m)
  \/ \E tm \in timers : ConnectionTimeout(tm)
  \/ Close("c3")
  \/ \E t \in tasks : DisconnectUpdate(t)
  \/ \E t \in tasks : DisconnectBroadcast(t)

SpecBrowser == InitSig /\ [][NextBrowser]_vars

\* ---- one channel sends its messages back to back: c2, not authenticated yet,
\* sends auth, register_machine and list_machines without waiting for replies
NextPipeline ==
  \/ \E id \in MsgIds, u \in Users : Auth("c2", id, u)
  \/ \E id \in MsgIds, n \in Names : RegisterMachine("c2", id, n)
  \/ \E id \in MsgIds : ListMachines("c2", id)
  \/ \E t \in tasks : AuthResume(t)
  \/ \E t \in tasks, ok \in BOOLEAN : RegisterMachineUpsert(t, ok)
  \/ \E t \in tasks, ok \in BOOLEAN : RegisterMachineBroadcast(t, ok)
  \/ \E t \in tasks, ok \in BOOLEAN : ListMachinesResume(t, ok)

SpecPipeline == InitHub /\ [][NextPipeline]_vars

\* ---- the sweep: time passes, the laptop's channel (c1) sends heartbeats or
\* stops, c2 never sends one; the sweep runs and the closes it asks for complete.
\* The interval timer keeps firing, time keeps passing and storage calls return.
NextSweep ==
  \/ \E id \in MsgIds : Heartbeat("c1", id)
  \/ \E t \in tasks, ok \in BOOLEAN : HeartbeatResume(t, ok)
  \/ Tick
  \/ Sweep
  \/ \E t \in tasks : SweepMark(t)
  \/ \E t \in tasks, m \in MachineIds : SweepBroadcast(t, m)
  \/ \E c \in HubChannels : ws[c] = "CLOSING" /\ Close(c)
  \/ \E t \in tasks : DisconnectUpdate(t)
  \/ \E t \in tasks : DisconnectBroadcast(t)

SpecSweep ==
  /\ InitHub /\ [][NextSweep]_vars
  /\ WF_vars(Tick)
  /\ WF_vars(Sweep)
  /\ WF_vars(\E t \in tasks, ok \in BOOLEAN : HeartbeatResume(t, ok))
  /\ WF_vars(\E t \in tasks : SweepMark(t))
  /\ WF_vars(\E t \in tasks, m \in MachineIds : SweepBroadcast(t, m))
  /\ WF_vars(\E t \in tasks : DisconnectUpdate(t))
  /\ WF_vars(\E t \in tasks : DisconnectBroadcast(t))

\* ---- the fan-out: the desk's channel (c2) authenticates again, as alice or as
\* bob, while the laptop's channel and the browser register machines and the
\* laptop's channel closes
NextFanout ==
  \/ \E id \in MsgIds, u \in Users : Auth("c2", id, u)
  \/ \E t \in tasks : AuthResume(t)
  \/ \E c \in {"c1", "c3"}, id \in MsgIds, n \in Names : RegisterMachine(c, id, n)
  \/ \E t \in tasks, ok \in BOOLEAN : RegisterMachineUpsert(t, ok)
  \/ \E t \in tasks, ok \in BOOLEAN : RegisterMachineBroadcast(t, ok)
  \/ Close("c1")
  \/ \E t \in tasks : DisconnectUpdate(t)
  \/ \E t \in tasks : DisconnectBroadcast(t)

SpecFanout == InitSig /\ [][NextFanout]_vars

\* ---- heartbeats: the laptop's channel and a channel without a machine send
\* heartbeats while time passes and the sweep marks stale machines offline
NextHeartbeat ==
  \/ \E c \in HubChannels, id \in MsgIds : Heartbeat(c, id)
  \/ \E t \in tasks, ok \in BOOLEAN : HeartbeatResume(t, ok)
  \/ Tick
  \/ Sweep
  \/ \E t \in tasks : SweepMark(t)
  \/ \E t \in tasks, m \in MachineIds : SweepBroadcast(t, m)

SpecHeartbeat == InitHub /\ [][NextHeartbeat]_vars

\* ---- hanging up: one request for the laptop, from the desk or from the browser;
\* the laptop accepts, rejects or answers, the requesters send offers, any channel
\* may close, the laptop's channel may register its machine again, the timer fires
NextHangup ==
  \/ \E c \in {"c2", "c3"}, id \in MsgIds :
       connSeq < 1 /\ tasks = {} /\ ConnectToMachine(c, id, "m1")
  \/ \E t \in tasks, ok \in BOOLEAN : ConnectAccess(t, ok)
  \/ \E t \in tasks, ok \in BOOLEAN : ConnectName(t, ok)
  \/ \E id \in MsgIds : handleConnectionAccepted("c1", id, "k1")
  \/ \E id \in MsgIds : handleConnectionRejected("c1", id, "k1")
  \/ \E c \in {"c2", "c3"}, id \in MsgIds : handleRTCOffer(c, id, "k1", "m1")
  \/ \E c \in Channels, id \in MsgIds, m \in RelayTargets :
       handleRTCAnswer(c, id, "k1", m)
  \/ \E tm \in timers : ConnectionTimeout(tm)
  \/ \E id \in MsgIds : RegisterMachine("c1", id, "laptop")
  \/ \E t \in tasks, ok \in BOOLEAN : RegisterMachineUpsert(t, ok)
  \/ \E t \in tasks, ok \in BOOLEAN : RegisterMachineBroadcast(t, ok)
  \/ \E c \in Channels : Close(c)
  \/ \E t \in tasks : DisconnectUpdate(t)
  \/ \E t \in tasks : DisconnectBroadcast(t)

SpecHangup == InitSig /\ [][NextHangup]_vars

\* ---- stale machines: the laptop and the desk send heartbeats or stop, a
\* browser is connected; time passes and the sweep runs
SpecStale == InitSig /\ [][NextHeartbeat]_vars

\* ---- the sweep and the closes it asks for, from the settled state: the laptop
\* sends heartbeats, the desk and the browser send none
SpecOffline == InitSig /\ [][NextSweep]_vars

\* ------------------------------------------------------------ properties
\* the frames of the last step, counted with their multiplicity
FrameCount == SumBag(out, DOMAIN out)

\* C1: when the user of a connect_to_machine does not own the target machine
\* (canAccess is false at the access check), that request sends no
\* connection_request: every connection_request on the wire comes from a
\* connect_to_machine whose user owned the target when access was checked.
C1_NoRequestWithoutAccess ==
  \A f \in FramesOut :
    f.type = "connection_request" =>
      ev.op = "connect_to_machine" /\ ev.owned /\ f.connectionId = ev.conn

\* bob's request for alice's laptop, which is online, was refused
C1_Witness ==
  /\ ev.op = "connect_to_machine" /\ ev.done /\ ev.code = "ACCESS_DENIED"
  /\ ~ev.owned
  /\ client[ev.ch].userId = "bob"
  /\ machineClients[ev.mid] # None

\* C8: a connect_to_machine that ends with ACCESS_DENIED or MACHINE_OFFLINE leaves
\* Pending, WebChannels and the web-client counter as they were, arms no timer and
\* sends frames to the requester only; and a request whose user does not own the
\* target ends with ACCESS_DENIED whether or not the target is online.
C8_FailedConnectChangesNothing ==
  [][/\ (ev'.op = "connect_to_machine"
           /\ ev'.code \in {"ACCESS_DENIED", "MACHINE_OFFLINE"}) =>
          /\ pendingConnections' = pendingConnections
          /\ webClients' = webClients
          /\ webClientCounter' = webClientCounter
          /\ timers' = timers
          /\ connSeq' = connSeq
          /\ \A f \in DOMAIN out' : f.to = ev'.ch /\ f.type = "error"
     /\ (ev'.op = "connect_to_machine" /\ ev'.pc = "conn_access"
           /\ ev'.code # "INVALID_MESSAGE"
           /\ ~(machines[ev'.mid].exists
                  /\ machines[ev'.mid].user_id = client[ev'.ch].userId)) =>
          ev'.code = "ACCESS_DENIED"
    ]_vars

\* a request for a machine that is neither the user's nor online was refused with
\* ACCESS_DENIED while another connection was pending
C8_Witness ==
  /\ ev.op = "connect_to_machine" /\ ev.code = "ACCESS_DENIED"
  /\ machineClients[ev.mid] = None
  /\ \E k \in ConnIds : pendingConnections[k].exists

\* C9: a connect_to_machine that passes both checks adds one entry to Pending,
\* under an id that was never used, and sends one frame: a connection_request
\* with that id, to the channel of the target machine, whose fromMachineId is the
\* requester's machineId or, if it has none, a web-client id minted for it and
\* entered in WebChannels, with the name "Web Client".
C9_ConnectCreatesOnePending ==
  [][(ev'.op = "connect_to_machine" /\ ev'.done /\ ev'.code = None) =>
       LET k == ev'.conn
           c == ev'.ch
       IN /\ ~pendingConnections[k].exists /\ log[k] = NoLog
          /\ pendingConnections'[k].exists
          /\ pendingConnections'[k].toMachineId = ev'.mid
          /\ pendingConnections'[k].fromClient = c
          /\ \A j \in ConnIds \ {k} :
               pendingConnections'[j] = pendingConnections[j]
          /\ FrameCount' = 1
          /\ \A f \in DOMAIN out' :
               /\ f.type = "connection_request" /\ f.connectionId = k
               /\ f.to = machineClients[ev'.mid]
               /\ pendingConnections'[k].fromClientId = f.machineId
               /\ IF client[c].machineId # None
                  THEN /\ f.machineId = client[c].machineId
                       /\ webClients' = webClients
                  ELSE /\ f.machineId \in WebIds
                       /\ webClients[f.machineId] = None
                       /\ webClientCounter' = webClientCounter + 1
                       /\ f.machineId = WebClientId(webClientCounter')
                       /\ webClients' = [webClients EXCEPT ![f.machineId] = c]
                       /\ f.name = "Web Client"
    ]_vars

\* C10: connection_accepted for a pending connection from a channel whose
\* machineId is not the connection's toMachineId (a channel without a machine
\* included) gets INVALID_CONNECTION, nothing else is sent and Pending stays as
\* it was; for a connection id that is not in Pending it gets CONNECTION_NOT_FOUND.
C10_AcceptedByNonTarget ==
  [][ev'.op = "connection_accepted" =>
       LET c == ev'.ch
           p == pendingConnections[ev'.conn]
           reply(code) == /\ ev'.code = code
                          /\ FrameCount' = 1
                          /\ DOMAIN out' = {Stamp(ErrorFrame(c, code))}
                          /\ pendingConnections' = pendingConnections
       IN /\ ~p.exists => reply("CONNECTION_NOT_FOUND")
          /\ (p.exists /\ client[c].machineId # p.toMachineId) =>
               reply("INVALID_CONNECTION")
    ]_vars

\* a channel without a machine tried to accept a pending connection
C10_Witness ==
  /\ ev.op = "connection_accepted" /\ ev.code = "INVALID_CONNECTION"
  /\ client[ev.ch].machineId = None
  /\ pendingConnections[ev.conn].exists

\* the outcomes a connection has had: answers forwarded, rejections and timeout
\* errors sent to the originator's channel
Outcomes(k) == log[k].answered + log[k].rejected + log[k].timedOut

\* C2 (as the code has it): a connection whose connection_request was sent has
\* at most one outcome (an rtc_answer forwarded, a connection_rejected sent to the
\* originator's channel, a CONNECTION_TIMEOUT error sent to the originator's
\* channel), its pending entry is gone once it has had one, and once its timer
\* has fired it has had exactly one.  The frame of a rejection or a timeout is
\* written only if the originator's socket is still open.
C2_OneOutcomeByTimeout ==
  \A k \in ConnIds :
    /\ Outcomes(k) <= 1
    /\ Outcomes(k) = 1 => ~pendingConnections[k].exists
    /\ pendingConnections[k].exists => log[k].requested = 1
    /\ (log[k].requested > 0 /\ log[k].fired) =>
         Outcomes(k) = 1 /\ ~pendingConnections[k].exists

\* the timer of a connection fired after its answer had been forwarded
C2_Witness ==
  \E k \in ConnIds :
    log[k].requested = 1 /\ log[k].fired /\ log[k].answered = 1

\* C2 (as stated): when the timer of a requested connection has fired, exactly
\* one outcome has happened, its connection_rejected or CONNECTION_TIMEOUT frame
\* was delivered to the originator, and the pending entry is gone.
C2_OutcomeDelivered ==
  \A k \in ConnIds :
    (log[k].requested > 0 /\ log[k].fired) =>
      Outcomes(k) = 1 /\ ~log[k].dropped /\ ~pendingConnections[k].exists

\* the types of message a channel sends, as the steps of their handlers name them
RequestTypes ==
  {"auth", "register_user", "register_machine", "heartbeat", "list_machines",
   "delete_machine", "rename_machine", "connect_to_machine",
   "connection_accepted", "connection_rejected", "rtc_offer", "rtc_answer",
   "rtc_ice_candidate", "unknown"}

\* the types whose handler answers with a frame that carries the request's id
AnsweredTypes ==
  {"auth", "register_user", "register_machine", "list_machines",
   "delete_machine", "rename_machine"}

\* C6: a request with id X brings its channel at most one response frame with
\* id X, whatever the type of the message and however its handler ends (success,
\* a failed precondition, a storage call that throws): over all the segments of
\* the handler, and for every handler still suspended.
C6_AtMostOneResponse ==
  /\ ev.op \in RequestTypes => ev.resp <= 1
  /\ \A t \in tasks : t.resp <= 1
  /\ \A f \in FramesOut :
       (ev.op \in RequestTypes /\ f.to = ev.ch /\ f.id = ev.id /\ f.type # "error")
         => out[f] = 1

\* a delete_machine got its response
C6_Witness ==
  /\ ev.op = "delete_machine" /\ ev.done /\ ev.resp = 1
  /\ \E f \in FramesOut : f.type = "delete_machine_response" /\ f.id = ev.id

\* C7 (as the code has it): a finished request has brought its channel at most
\* one reply, a response frame with its id or an error frame, never both.  auth,
\* register_user, register_machine, list_machines, delete_machine and
\* rename_machine always get exactly one; the other types get one error frame when
\* they fail and no reply when they succeed or are dropped (heartbeat_ack carries
\* no id).
C7_AtMostOneReply ==
  (ev.op \in RequestTypes /\ ev.done) =>
    /\ ev.resp + ev.errs <= 1
    /\ ev.op \in AnsweredTypes => ev.resp + ev.errs = 1
    /\ ev.op \notin AnsweredTypes =>
         /\ ev.resp = 0
         /\ ev.errs = IF ev.code \in {None, "dropped"} THEN 0 ELSE 1

\* a heartbeat with an id ended with no frame that carries the id and no error
C7_Witness ==
  /\ ev.op = "heartbeat" /\ ev.done /\ ev.id # None
  /\ ev.resp + ev.errs = 0
  /\ \E f \in FramesOut : f.type = "heartbeat_ack" /\ f.id = None

\* C7 (as stated): every finished request that carries an id has brought its
\* channel exactly one response frame with that id or exactly one error frame.
C7_ExactlyOneReply ==
  (ev.op \in RequestTypes /\ ev.done /\ ev.id # None) => ev.resp + ev.errs = 1

\* C3: once another channel has registered a machine id, no connection_request
\* for that machine is delivered to the channel that held the id before: a
\* delivered connection_request goes to the channel the registry maps its target
\* to, if the registry maps the target at all.
C3_NoRequestToReplacedChannel ==
  \A f \in FramesOut :
    (/\ f.type = "connection_request" /\ f.open
     /\ ev.op = "connect_to_machine"
     /\ client[f.to].machineId = ev.mid
     /\ machineClients[ev.mid] # None)
      => f.to = machineClients[ev.mid]

\* C4: at the step that sends machine_registered, the registry maps the machine to
\* the registering channel and the machine's row has is_online true.
C4_RegisteredIsOnline ==
  (/\ ev.op = "register_machine" /\ ev.done
   /\ \E f \in FramesOut : f.type = "machine_registered" /\ f.to = ev.ch)
    => /\ machineClients[ev.mid] = ev.ch
       /\ machines[ev.mid].exists
       /\ machines[ev.mid].is_online

\* C5: when the close handler of a channel attached to machine M has finished, M's
\* row has is_online false, M is not in the registry, and machine_offline for M
\* went to every other open channel of the registry that belongs to M's owner.
C5_ClosedMachineIsOffline ==
  (ev.op = "close" /\ ev.done /\ ev.mid # None) =>
    /\ ~machines[ev.mid].is_online
    /\ machineClients[ev.mid] = None
    /\ \A m \in MachineIds :
         (/\ machineClients[m] \notin {None, ev.ch}
          /\ ws[machineClients[m]] = "OPEN"
          /\ client[machineClients[m]].userId = machines[ev.mid].user_id)
           => \E f \in FramesOut :
                /\ f.type = "machine_offline" /\ f.machineId = ev.mid
                /\ f.to = machineClients[m] /\ f.open

\* C11: connection_accepted for pending connection C from the channel of C's
\* target machine sends one frame, connection_accepted with connectionId C and
\* targetMachineId C's toMachineId, to the originator's channel (written if that
\* socket is open), and leaves Pending and WebChannels as they were, so C is
\* still pending after the step.
C11_AcceptedReachesOriginator ==
  [][(/\ ev'.op = "connection_accepted"
      /\ pendingConnections[ev'.conn].exists
      /\ client[ev'.ch].machineId = pendingConnections[ev'.conn].toMachineId) =>
       LET k == ev'.conn
           p == pendingConnections[k]
       IN /\ ev'.code = None
          /\ FrameCount' = 1
          /\ \A f \in DOMAIN out' :
               /\ f.type = "connection_accepted" /\ f.to = p.fromClient
               /\ f.connectionId = k /\ f.machineId = p.toMachineId
               /\ f.open = (ws[p.fromClient] = "OPEN")
          /\ pendingConnections' = pendingConnections
          /\ pendingConnections'[k].exists
          /\ webClients' = webClients
    ]_vars

\* the laptop accepted the connection of a browser, which got the notice while
\* its web-client entry and the pending entry are still there
C11_Witness ==
  /\ ev.op = "connection_accepted" /\ ev.code = None
  /\ pendingConnections[ev.conn].exists
  /\ pendingConnections[ev.conn].fromClientId \in WebIds
  /\ webClients[pendingConnections[ev.conn].fromClientId] = pendingConnections[ev.conn].fromClient
  /\ \E f \in FramesOut :
       f.type = "connection_accepted" /\ f.open /\ f.to = pendingConnections[ev.conn].fromClient

\* C12: connection_rejected for pending connection C from the channel of C's
\* target machine sends one frame, connection_rejected with connectionId C, to
\* the originator's channel (written if that socket is open) and removes C from
\* Pending; from any other channel, or for a C that is not pending, the step
\* sends no frame at all and leaves Pending as it was.
C12_RejectedByTargetOnly ==
  [][ev'.op = "connection_rejected" =>
       LET k == ev'.conn
           c == ev'.ch
           p == pendingConnections[k]
       IN IF p.exists /\ client[c].machineId = p.toMachineId
          THEN /\ FrameCount' = 1
               /\ \A f \in DOMAIN out' :
                    /\ f.type = "connection_rejected" /\ f.to = p.fromClient
                    /\ f.connectionId = k
                    /\ f.open = (ws[p.fromClient] = "OPEN")
               /\ ~pendingConnections'[k].exists
               /\ \A j \in ConnIds \ {k} :
                    pendingConnections'[j] = pendingConnections[j]
          ELSE /\ FrameCount' = 0
               /\ pendingConnections' = pendingConnections
    ]_vars

\* the laptop rejected a pending connection: the originator got the frame and
\* the entry is gone
C12_Witness ==
  /\ ev.op = "connection_rejected" /\ ev.code = None
  /\ client[ev.ch].machineId = "m1"
  /\ ~pendingConnections[ev.conn].exists
  /\ \E f \in FramesOut :
       f.type = "connection_rejected" /\ f.open /\ f.connectionId = ev.conn

\* the channel is neither the originator of pending connection p (its stored
\* channel, or a channel whose machine id or web-client id is p's originator id)
\* nor the channel of p's target machine
Outsider(c, p) ==
  /\ p.fromClient # c
  /\ client[c].machineId # p.fromClientId
  /\ ~\E w \in WebIds : webClients[w] = c /\ w = p.fromClientId
  /\ client[c].machineId # p.toMachineId

\* C13: an rtc_offer for pending connection C from a channel that is neither C's
\* originator nor the channel of C's target machine is answered with
\* INVALID_CONNECTION, one error frame to the sender, and is forwarded to nobody.
C13_OfferByOutsiderRefused ==
  [][(/\ ev'.op = "rtc_offer"
      /\ pendingConnections[ev'.conn].exists
      /\ Outsider(ev'.ch, pendingConnections[ev'.conn])) =>
       /\ ev'.code = "INVALID_CONNECTION"
       /\ FrameCount' = 1
       /\ DOMAIN out' = {Stamp(ErrorFrame(ev'.ch, "INVALID_CONNECTION"))}
    ]_vars

\* C14: an rtc_answer or rtc_ice_candidate for pending connection C from a
\* channel that is neither C's originator nor the channel of C's target machine
\* is forwarded to nobody, and leaves Pending and WebChannels as they were.
C14_RoutedForParticipantsOnly ==
  [][(/\ ev'.op \in {"rtc_answer", "rtc_ice_candidate"}
      /\ pendingConnections[ev'.conn].exists
      /\ Outsider(ev'.ch, pendingConnections[ev'.conn])) =>
       /\ \A f \in DOMAIN out' : f.type \notin {"rtc_answer", "rtc_ice_candidate"}
       /\ pendingConnections' = pendingConnections
       /\ webClients' = webClients
    ]_vars

\* C15: for every connection, an rtc_offer or an rtc_answer has been forwarded
\* only if the target machine's connection_accepted was processed (its notice
\* sent to the originator) before, and an rtc_answer has been forwarded only if
\* an rtc_offer was forwarded before.
C15_RequestAcceptThenSdp ==
  \A k \in ConnIds :
    /\ (log[k].offered > 0 \/ log[k].answered > 0) => log[k].accepted > 0
    /\ log[k].answered > 0 => log[k].offered > 0

\* C16: an rtc_answer for pending connection C whose addressed target resolves
\* (in the machine registry or in WebChannels) is forwarded to that channel, one
\* frame, and the step removes C from Pending and, if C's originator had no
\* machine when C was created, its web-client id from WebChannels, and nothing
\* else from either table; when the target does not resolve the sender gets
\* MACHINE_OFFLINE, no other frame is sent, and both tables stay as they were.
C16_AnswerEndsSession ==
  [][(ev'.op = "rtc_answer" /\ pendingConnections[ev'.conn].exists) =>
       LET k == ev'.conn
           m == ev'.mid
           p == pendingConnections[k]
           target == IF m \in MachineIds /\ machineClients[m] # None
                     THEN machineClients[m]
                     ELSE IF m \in WebIds THEN webClients[m] ELSE None
       IN IF target # None
          THEN /\ ev'.code = None
               /\ FrameCount' = 1
               /\ \A f \in DOMAIN out' :
                    f.type = "rtc_answer" /\ f.to = target /\ f.connectionId = k
               /\ ~pendingConnections'[k].exists
               /\ \A j \in ConnIds \ {k} :
                    pendingConnections'[j] = pendingConnections[j]
               /\ \A w \in WebIds :
                    webClients'[w] =
                      IF w = p.fromClientId /\ p.fromMachineId = None
                      THEN None ELSE webClients[w]
          ELSE /\ ev'.code = "MACHINE_OFFLINE"
               /\ FrameCount' = 1
               /\ DOMAIN out' = {Stamp(ErrorFrame(ev'.ch, "MACHINE_OFFLINE"))}
               /\ pendingConnections' = pendingConnections
               /\ webClients' = webClients
    ]_vars

\* the laptop's answer went to the browser that asked for it, and the
\* browser's web-client id is gone with the pending entry
C16_Witness ==
  /\ ev.op = "rtc_answer" /\ ev.code = None
  /\ client[ev.ch].machineId = "m1"
  /\ ev.mid \in WebIds /\ webClients[ev.mid] = None
  /\ ~pendingConnections[ev.conn].exists
  /\ \E f \in FramesOut : f.type = "rtc_answer" /\ f.to = "c3" /\ f.open

\* C17: when the timer of connection C fires while C is in Pending, the step
\* removes C from Pending, removes the originator's web-client id from WebChannels
\* if the originator had no machine when C was created, and sends one frame, the
\* error CONNECTION_TIMEOUT, to the originator's channel; when C is not in
\* Pending the step sends nothing and leaves both tables as they were.
C17_TimerCleansUp ==
  [][ev'.op = "timer" =>
       LET k == ev'.conn
           p == pendingConnections[k]
       IN IF p.exists
          THEN /\ ~pendingConnections'[k].exists
               /\ \A j \in ConnIds \ {k} :
                    pendingConnections'[j] = pendingConnections[j]
               /\ \A w \in WebIds :
                    webClients'[w] =
                      IF w = p.fromClientId /\ p.fromMachineId = None
                      THEN None ELSE webClients[w]
               /\ FrameCount' = 1
               /\ \A f \in DOMAIN out' :
                    f.type = "error" /\ f.code = "CONNECTION_TIMEOUT"
                    /\ f.to = p.fromClient
          ELSE /\ FrameCount' = 0
               /\ pendingConnections' = pendingConnections
               /\ webClients' = webClients
    ]_vars

\* C18: every web-client id in WebChannels is the originator id of a connection
\* that is in Pending.
C18_WebClientHasSession ==
  \A w \in WebIds :
    webClients[w] # None =>
      \E k \in ConnIds :
        pendingConnections[k].exists /\ pendingConnections[k].fromClientId = w

\* C19: the handler of a message starts on a channel only when no handler of an
\* earlier message of that channel is suspended on a storage call; so a
\* register_machine that follows the auth of a known user on the same channel is
\* never refused with NOT_AUTHENTICATED.
C19_HandlersSerialized ==
  [][(ev'.op \in RequestTypes /\ ev'.pc = "recv") =>
       /\ \A t \in tasks : t.kind \in RequestTypes => t.ch # ev'.ch
       /\ (ev'.op = "register_machine" /\ ev'.code = "NOT_AUTHENTICATED") =>
            ~\E t \in tasks :
               t.kind = "auth" /\ t.ch = ev'.ch /\ t.user \in users
    ]_vars

\* C20: a sweep asks a channel to close exactly when the channel is connected,
\* open and its last heartbeat is more than heartbeatTimeout old, and nothing
\* else does; so a channel whose heartbeat is at most heartbeatTimeout old at
\* every sweep is never closed by the sweep, and a channel that stops sending
\* heartbeats is closed in the end (every channel either keeps sending
\* heartbeats for ever or stops being open).
C20_SweepClosesStaleOnly ==
  /\ [][\A c \in Channels :
         /\ (ws[c] # "CLOSING" /\ ws'[c] = "CLOSING") =>
              /\ ev'.op = "sweep" /\ ev'.pc = "recv"
              /\ client[c].lastHeartbeat > heartbeatTimeout
         /\ (/\ ev'.op = "sweep" /\ ev'.pc = "recv"
             /\ c \in clients /\ ws[c] = "OPEN"
             /\ client[c].lastHeartbeat > heartbeatTimeout) =>
              ws'[c] = "CLOSING"
      ]_vars
  /\ \A c \in HubChannels :
       \/ []<>(ev.op = "heartbeat" /\ ev.pc = "recv" /\ ev.ch = c)
       \/ <>(ws[c] # "OPEN")

\* a sweep closed the channel that never sent a heartbeat and left open the one
\* whose last heartbeat is exactly heartbeatTimeout old
C20_Witness ==
  /\ ev.op = "sweep" /\ ev.pc = "recv"
  /\ ws["c2"] = "CLOSING" /\ client["c2"].lastHeartbeat > heartbeatTimeout
  /\ ws["c1"] = "OPEN" /\ client["c1"].lastHeartbeat = heartbeatTimeout

\* the types of the presence frames
PresenceTypes == {"machine_online", "machine_offline"}

\* the channels a broadcast for machine m tells: those of the registry whose user
\* owns m, but for the excluded one
Audience(m, exclude) ==
  {machineClients[k] : k \in {j \in MachineIds :
     /\ machineClients[j] # None
     /\ client[machineClients[j]].userId = machines[m].user_id
     /\ machineClients[j] # exclude}}

\* C21: a presence frame (machine_online, machine_offline) for machine M goes
\* only to channels of the registry whose userId is the user of M's row, and every
\* such channel but the excluded one gets it; the broadcast of a registration is
\* machine_online and never goes to the registering channel, and it reaches every
\* other registry channel of the owner.
C21_PresenceToOwnersOnly ==
  /\ \A f \in FramesOut :
       f.type \in PresenceTypes =>
         LET exclude == IF ev.op = "register_machine" THEN ev.ch ELSE None
         IN /\ f.to \in Audience(f.machineId, exclude)
            /\ client[f.to].userId = machines[f.machineId].user_id
            /\ \A c \in Audience(f.machineId, exclude) :
                 \E g \in FramesOut :
                   g.to = c /\ g.type = f.type /\ g.machineId = f.machineId
            /\ ev.op = "register_machine" =>
                 f.type = "machine_online" /\ f.to # ev.ch /\ f.machineId = ev.mid
  /\ (ev.op = "register_machine" /\ ev.done /\ ev.code = None
        /\ machines[ev.mid].exists) =>
       \A c \in Audience(ev.mid, ev.ch) :
         \E g \in FramesOut :
           g.to = c /\ g.type = "machine_online" /\ g.machineId = ev.mid

\* the browser registered a machine: alice's laptop channel was told, and the
\* desk's channel, now bob's, which is in the registry, was not
C21_Witness ==
  /\ ev.op = "register_machine" /\ ev.done /\ ev.code = None /\ ev.ch = "c3"
  /\ machineClients["m2"] = "c2" /\ client["c2"].userId = "bob"
  /\ \E f \in FramesOut : f.type = "machine_online" /\ f.to = "c1" /\ f.open
  /\ ~\E f \in FramesOut : f.to \in {"c2", "c3"} /\ f.type \in PresenceTypes

\* what every step of a heartbeat's handler leaves alone: of the sender's channel
\* record all but lastHeartbeat, of the row of the sender's machine all but
\* last_seen, and all of the other channels, the other rows, the users, the
\* registry, WebChannels, Pending, the sockets and the connected clients
HeartbeatTouches(c) ==
  /\ \A d \in Channels :
       client'[d] = IF d = c
                    THEN [client[d] EXCEPT !.lastHeartbeat = client'[d].lastHeartbeat]
                    ELSE client[d]
  /\ \A m \in MachineIds :
       machines'[m] = IF m = client[c].machineId
                      THEN [machines[m] EXCEPT !.last_seen = machines'[m].last_seen]
                      ELSE machines[m]
  /\ UNCHANGED <<ws, clients, users, machineSeq, machineClients, webClients,
                 webClientCounter, pendingConnections, connSeq, timers>>

\* C22 (as the code has it): a heartbeat changes only its channel's lastHeartbeat
\* and the last_seen of the machine attached to the channel; every frame it
\* sends goes to the sender, and is heartbeat_ack, or, when the storage call
\* threw, the one error INVALID_MESSAGE.
C22_HeartbeatTouchesStampsOnly ==
  [][ev'.op = "heartbeat" =>
       /\ HeartbeatTouches(ev'.ch)
       /\ \A f \in DOMAIN out' :
            /\ f.to = ev'.ch
            /\ IF ev'.code = "INVALID_MESSAGE"
               THEN f.type = "error" /\ f.code = "INVALID_MESSAGE" /\ out'[f] = 1
               ELSE f.type = "heartbeat_ack"
    ]_vars

\* the heartbeat of the laptop's channel went through after the sweep had marked
\* the laptop offline: last_seen is fresh and the laptop is still offline
C22_Witness ==
  /\ ev.op = "heartbeat" /\ ev.done /\ ev.code = None /\ ev.ch = "c1"
  /\ machines["m1"].last_seen = 0 /\ ~machines["m1"].is_online
  /\ machines["m2"].last_seen > 0
  /\ \E f \in FramesOut : f.type = "heartbeat_ack" /\ f.to = "c1"

\* C22 (as stated): a heartbeat changes only its channel's lastHeartbeat and its
\* machine's last_seen, and sends no frame other than heartbeat_ack to the sender.
C22_OnlyHeartbeatAck ==
  [][ev'.op = "heartbeat" =>
       /\ HeartbeatTouches(ev'.ch)
       /\ \A f \in DOMAIN out' : f.to = ev'.ch /\ f.type = "heartbeat_ack"
    ]_vars

\* the types of request that need an authenticated channel
OwnerTypes ==
  {"register_machine", "list_machines", "delete_machine", "rename_machine",
   "connect_to_machine"}

\* C23: register_machine, list_machines, delete_machine, rename_machine and
\* connect_to_machine arriving on a channel that is not authenticated end at once
\* with one frame, the error NOT_AUTHENTICATED to the sender, and change nothing:
\* no row, no user, no registry entry, no pending connection, no web-client id, no
\* timer, no channel record, and no handler is left suspended.
C23_NotAuthenticatedChangesNothing ==
  [][(/\ ev'.op \in OwnerTypes /\ ev'.pc = "recv"
      /\ ~client[ev'.ch].authenticated) =>
       /\ ev'.done /\ ev'.code = "NOT_AUTHENTICATED"
       /\ FrameCount' = 1
       /\ DOMAIN out' = {Stamp(ErrorFrame(ev'.ch, "NOT_AUTHENTICATED"))}
       /\ UNCHANGED <<ws, clients, client, users, machines, machineSeq,
                      machineClients, webClients, webClientCounter,
                      pendingConnections, connSeq, timers, log, tasks>>
    ]_vars

\* a channel that never authenticated asked to delete alice's laptop, which is
\* still there, registered and online
C23_Witness ==
  /\ ev.op = "delete_machine" /\ ev.code = "NOT_AUTHENTICATED"
  /\ ~client[ev.ch].authenticated /\ client[ev.ch].userId = None
  /\ ev.mid = None
  /\ machines["m1"].exists /\ machines["m1"].is_online /\ machineClients["m1"] = "c1"

\* C24 (as the code has it): a disconnect removes nothing from Pending.  An entry
\* leaves Pending only in the step of an rtc_answer, of a connection_rejected or
\* of its timer, and once the timer of a connection has fired the connection is
\* not in Pending, whether its parties are still connected or not.
C24_PendingEndsByOutcomeOnly ==
  /\ [][\A k \in ConnIds :
          (pendingConnections[k].exists /\ ~pendingConnections'[k].exists) =>
            /\ ev'.op \in {"rtc_answer", "connection_rejected", "timer"}
            /\ ev'.conn = k
      ]_vars
  /\ [](\A k \in ConnIds : log[k].fired => ~pendingConnections[k].exists)

\* the close of the originator's channel has been handled, the target's channel
\* has closed too, and their connection is still in Pending, its timer running
C24_Witness ==
  \E k \in ConnIds :
    /\ pendingConnections[k].exists /\ ~log[k].fired
    /\ ws[pendingConnections[k].fromClient] = "CLOSED"
    /\ pendingConnections[k].fromClient \notin clients
    /\ ws["c1"] = "CLOSED" /\ pendingConnections[k].toMachineId = "m1"
    /\ ev.op = "close" /\ ev.done

\* C24 (as stated): once the close of a channel has been handled, no entry of
\* Pending has that channel as its originator or that channel's machine as its
\* target.
C24_PendingGoneAfterDisconnect ==
  \A c \in Channels :
    (ws[c] = "CLOSED" /\ c \notin clients) =>
      \A k \in ConnIds :
        pendingConnections[k].exists =>
          /\ pendingConnections[k].fromClient # c
          /\ pendingConnections[k].toMachineId # client[c].machineId

\* the machines that are online with last_seen more than T old
OnlineAndOlder(T) ==
  {m \in MachineIds :
     machines[m].exists /\ machines[m].is_online /\ machines[m].last_seen > T}

\* C25: the sweep's markStaleOffline(heartbeatTimeout) sets is_online to false for
\* exactly the machines that are online with last_seen more than heartbeatTimeout
\* old, leaves every other row and every last_seen as they were, and returns
\* exactly their ids; the sweep then runs one machine_offline fan-out for each
\* returned id, to the registry channels of the machine's owner, and ends when
\* none is left.
C25_SweepMarksExactlyStale ==
  [][/\ (ev'.op = "sweep" /\ ev'.pc = "sweep_mark") =>
          LET stale == OnlineAndOlder(heartbeatTimeout) IN
          /\ \A m \in MachineIds :
               machines'[m] = IF m \in stale
                              THEN [machines[m] EXCEPT !.is_online = FALSE]
                              ELSE machines[m]
          /\ FrameCount' = 0
          /\ ev'.done = (stale = {})
          /\ \E t \in tasks :
               /\ t.kind = "sweep" /\ t.pc = "sweep_mark"
               /\ tasks' = IF stale = {} THEN tasks \ {t}
                           ELSE (tasks \ {t}) \cup
                                  {[t EXCEPT !.pc = "sweep_bcast", !.rest = stale]}
     /\ (ev'.op = "sweep" /\ ev'.pc = "sweep_bcast") =>
          \E t \in tasks :
            /\ t.kind = "sweep" /\ t.pc = "sweep_bcast" /\ ev'.mid \in t.rest
            /\ machines' = machines
            /\ {f.to : f \in DOMAIN out'} = Audience(ev'.mid, None)
            /\ \A f \in DOMAIN out' :
                 f.type = "machine_offline" /\ f.machineId = ev'.mid
            /\ ev'.done = (t.rest = {ev'.mid})
            /\ tasks' = IF t.rest = {ev'.mid} THEN tasks \ {t}
                        ELSE (tasks \ {t}) \cup
                               {[t EXCEPT !.rest = t.rest \ {ev'.mid}]}
    ]_vars

\* the sweep took the laptop offline and told the desk's channel, while the desk,
\* whose last_seen is exactly heartbeatTimeout old, stays online
C25_Witness ==
  /\ ev.op = "sweep" /\ ev.pc = "sweep_bcast" /\ ev.done /\ ev.mid = "m1"
  /\ ~machines["m1"].is_online
  /\ machines["m2"].is_online /\ machines["m2"].last_seen = heartbeatTimeout
  /\ \E f \in FramesOut : f.type = "machine_offline" /\ f.to = "c2" /\ f.open

\* C26 (as the code has it): no step of a channel's close handler changes
\* Pending, WebChannels or the timers; a connection that was requested is in
\* Pending as long as its timer has not fired, it was not rejected and no answer
\* for it was forwarded, whichever of its parties have disconnected.
C26_CloseLeavesPending ==
  /\ [][ev'.op = "close" =>
          /\ pendingConnections' = pendingConnections
          /\ webClients' = webClients
          /\ timers' = timers
      ]_vars
  /\ [](\A k \in ConnIds :
          (/\ log[k].requested > 0 /\ ~log[k].fired
           /\ log[k].rejected = 0 /\ log[k].answered = 0)
            => pendingConnections[k].exists)

\* the browser that asked for the laptop has gone, the close is handled, and its
\* connection is still pending with its timer armed
C26_Witness ==
  /\ ev.op = "close" /\ ev.done /\ ev.ch = "c3" /\ "c3" \notin clients
  /\ \E k \in ConnIds :
       /\ pendingConnections[k].exists /\ pendingConnections[k].fromClient = "c3"
       /\ \E tm \in timers : tm.conn = k

\* C26 (as stated): a pending connection whose originator has disconnected
\* leaves Pending only when its timer fires.
C26_OriginatorGoneUntilTimer ==
  [][\A k \in ConnIds :
       (/\ pendingConnections[k].exists
        /\ ws[pendingConnections[k].fromClient] = "CLOSED"
        /\ ~pendingConnections'[k].exists) => ev'.op = "timer"
    ]_vars

\* every channel attached to machine m has closed, and there is one
Disconnected(m) ==
  /\ \E c \in Channels : client[c].machineId = m
  /\ \A c \in Channels : client[c].machineId = m => ws[c] = "CLOSED"

\* C27: once the channel of the target machine of pending connection C has
\* disconnected, an rtc_offer from C's originator or an rtc_answer from any
\* channel, addressed to that machine, ends with one frame, the error
\* MACHINE_OFFLINE to its sender, and leaves Pending as it was.
C27_OfflineAfterTargetLeft ==
  [][(/\ ev'.op \in {"rtc_offer", "rtc_answer"}
      /\ pendingConnections[ev'.conn].exists
      /\ ev'.mid = pendingConnections[ev'.conn].toMachineId
      /\ Disconnected(ev'.mid)
      /\ ev'.op = "rtc_offer" => ev'.ch = pendingConnections[ev'.conn].fromClient) =>
       /\ ev'.code = "MACHINE_OFFLINE"
       /\ FrameCount' = 1
       /\ DOMAIN out' = {Stamp(ErrorFrame(ev'.ch, "MACHINE_OFFLINE"))}
       /\ pendingConnections' = pendingConnections
    ]_vars

\* C28: every forwarded rtc_offer carries the sender's machine id, or else the
\* web-client id of the connection's originator; every forwarded rtc_answer
\* carries the answering machine's id, or else the connection's target machine
\* id; and the id carried resolves, by the lookup a reply goes through, to the
\* channel of the sender.
C28_ReplyResolvesToSender ==
  [][(ev'.op \in {"rtc_offer", "rtc_answer"} /\ ev'.code = None) =>
       \A f \in DOMAIN out' :
         /\ f.type = ev'.op
         /\ f.machineId =
              IF ev'.op = "rtc_offer"
              THEN SenderId(ev'.ch, pendingConnections[ev'.conn])
              ELSE IF client[ev'.ch].machineId # None
                   THEN client[ev'.ch].machineId
                   ELSE pendingConnections[ev'.conn].toMachineId
         /\ getClientById(f.machineId) = ev'.ch
    ]_vars

\* C29: every forwarded rtc_ice_candidate carries an id of its sender: the
\* sender's machine id, or else the web-client id of the connection's
\* originator, and some id also when the connection is no longer pending; and no
\* rtc_ice_candidate is answered with an error frame.
C29_CandidateCarriesSenderId ==
  [][ev'.op = "rtc_ice_candidate" =>
       /\ ev'.errs = 0
       /\ \A f \in DOMAIN out' :
            /\ f.type = "rtc_ice_candidate"
            /\ f.machineId # None
            /\ client[ev'.ch].machineId # None => f.machineId = client[ev'.ch].machineId
            /\ (client[ev'.ch].machineId = None /\ pendingConnections[ev'.conn].exists)
                 => f.machineId = pendingConnections[ev'.conn].fromClientId
    ]_vars

\* C30: once the target machine's connection_accepted for connection C has been
\* processed, the firing of C's timer leaves Pending as it was and sends no
\* frame, so no CONNECTION_TIMEOUT reaches the originator.
C30_TimerSparesAccepted ==
  [][(ev'.op = "timer" /\ log[ev'.conn].accepted > 0) =>
       /\ pendingConnections' = pendingConnections
       /\ FrameCount' = 0
    ]_vars

\* the pending connections whose originator id is a minted web-client id
WebPending == {k \in ConnIds : pendingConnections[k].exists
                                /\ pendingConnections[k].fromClientId \in WebIds}

\* C31: the counter never decreases; a connect_to_machine of a machine-less
\* channel that passes the checks raises it by one and uses web-client-<new
\* value> (web-client-1 the first time) for the new pending connection and the
\* new web-client entry; only ids up to the counter are in use, and no two
\* pending connections have the same minted id.
C31_WebIdsMintedOnce ==
  /\ [][/\ webClientCounter' >= webClientCounter
        /\ (/\ ev'.op = "connect_to_machine" /\ ev'.done /\ ev'.code = None
            /\ client[ev'.ch].machineId = None) =>
             /\ webClientCounter' = webClientCounter + 1
             /\ pendingConnections'[ev'.conn].fromClientId =
                  WebClientId(webClientCounter')
             /\ webClients[WebClientId(webClientCounter')] = None
             /\ webClients'[WebClientId(webClientCounter')] = ev'.ch
             /\ \A k \in WebPending :
                  pendingConnections[k].fromClientId # WebClientId(webClientCounter')
     ]_vars
  /\ [](/\ \A n \in 1..MaxWeb :
             n > webClientCounter =>
               /\ webClients[WebClientId(n)] = None
               /\ \A k \in WebPending :
                    pendingConnections[k].fromClientId # WebClientId(n)
        /\ \A k1, k2 \in WebPending :
             pendingConnections[k1].fromClientId = pendingConnections[k2].fromClientId
               => k1 = k2)

\* the two requests of the browser are both pending, one under web-client-1 and
\* one under web-client-2
C31_Witness ==
  /\ webClientCounter = 2
  /\ Cardinality(WebPending) = 2
  /\ webClients[WebClientId(1)] = "c3" /\ webClients[WebClientId(2)] = "c3"
  /\ ev.op = "connect_to_machine" /\ ev.done /\ ev.ch = "c3"

C33_CloseRemovesOwnEntryOnly ==
  [][ev'.op = "close" =>
       \A m \in MachineIds :
         machineClients[m] \notin {None, ev'.ch} =>
           /\ machineClients'[m] = machineClients[m]
           /\ ws[machineClients[m]] = "OPEN" =>
                machines'[m].is_online = machines[m].is_online
    ]_vars

\* C34: once the close handler of a channel has finished (the channel's record
\* is gone), no entry of the registry maps to that channel.
C34_NoEntryForClosedChannel ==
  \A c \in Channels :
    (ws[c] = "CLOSED" /\ c \notin clients) =>
      \A m \in MachineIds : machineClients[m] # c

SignalingTypes == {"rtc_offer", "rtc_answer", "rtc_ice_candidate"}

\* C35: every rtc_offer, rtc_answer and rtc_ice_candidate that is forwarded names
\* a pending connection and goes to the channel of that connection's originator
\* or to the channel registered for its target machine; no such frame goes to
\* the channel of a machine that belongs to another user than the sender.
C35_SignalingStaysInSession ==
  [][(ev'.op \in SignalingTypes /\ ev'.code = None) =>
       LET p == pendingConnections[ev'.conn]
       IN \A f \in DOMAIN out' :
            /\ p.exists
            /\ f.to \in {p.fromClient, machineClients[p.toMachineId]}
            /\ client[f.to].machineId # None =>
                 machines[client[f.to].machineId].user_id = client[ev'.ch].userId
    ]_vars

\* C36: at the step that sends the connection_request of a connect_to_machine,
\* the frame goes to the channel the registry maps the target machine to at that
\* moment.
C36_TargetResolvedAtSend ==
  (ev.op = "connect_to_machine" /\ ev.done /\ ev.code = None) =>
    \A f \in FramesOut :
      f.type = "connection_request" => f.to = machineClients[ev.mid]

\* C37: no step writes a machine_offline for machine M to a channel that was
\* already written one since M's is_online last changed, and no step writes two
\* of them to one channel.
C37_OneOfflinePerTransition ==
  [][\A f \in DOMAIN out' :
       (f.type = "machine_offline" /\ f.open) =>
         /\ out'[f] = 1
         /\ f.to \notin log[f.machineId].told
    ]_vars

\* C38: every entry of the registry maps a machine that has a row in storage to
\* a channel whose userId is the owner of that row.
C38_RegistryChannelIsOwners ==
  \A m \in MachineIds :
    machineClients[m] # None =>
      /\ machines[m].exists
      /\ client[machineClients[m]].userId = machines[m].user_id

\* C39: for every connection at most one connection_accepted is sent to the
\* originator, and no connection_rejected is sent for a connection that was
\* accepted.
C39_AcceptedOnce ==
  \A k \in ConnIds :
    /\ log[k].accepted <= 1
    /\ log[k].accepted > 0 => log[k].rejected = 0

\* C40: a connect_to_machine of a user who has no access to the target ends, when
\* its access lookup returns, with one frame, the error ACCESS_DENIED to the
\* requester (INVALID_MESSAGE if the lookup failed), whether the registry has
\* the target or not; nothing is sent to the target and nothing is stored.
C40_DenialHidesPresence ==
  [][(ev'.op = "connect_to_machine" /\ ev'.pc = "conn_access" /\ ~ev'.owned) =>
       /\ ev'.done
       /\ ev'.code \in {"ACCESS_DENIED", "INVALID_MESSAGE"}
       /\ FrameCount' = 1
       /\ DOMAIN out' = {Stamp(ErrorFrame(ev'.ch, ev'.code))}
       /\ pendingConnections' = pendingConnections
       /\ webClients' = webClients
       /\ timers' = timers
    ]_vars

\* bob's browser asked for alice's laptop while the laptop was registered and its
\* channel open: it was written ACCESS_DENIED, and the laptop was sent nothing
C40_Witness ==
  /\ ev.op = "connect_to_machine" /\ ev.code = "ACCESS_DENIED" /\ ev.ch = "c3"
  /\ client["c3"].userId = "bob" /\ ev.mid = "m1"
  /\ machineClients["m1"] = "c1" /\ ws["c1"] = "OPEN"
  /\ \A f \in FramesOut : f.to = "c3" /\ f.type = "error" /\ f.open
====
